---- MODULE Spec2Model ----
(***************************************************************************)
(* Verification model of the trading_ai scoring / sizing / backtest core.  *)
(*                                                                         *)
(* Python floats are modelled as exact rationals [n, d] in lowest terms    *)
(* (d > 0).  NaN is carried as a separate tag where the code can produce   *)
(* it.  IEEE rounding is not modelled.                                     *)
(***************************************************************************)
EXTENDS Integers, Sequences, FiniteSets, TLC

VARIABLES
    rm_pc,              \* RiskManager call: "call" before, "done" after size_position
    max_daily_loss_pct, \* RiskManager.max_daily_loss_pct
    min_confidence,     \* RiskManager.min_confidence
    params,             \* the PositionSizingInput handed to size_position
    rm_result,          \* [raised, value]: outcome of size_position(params)
    st_pc,              \* MomentumIVStrategy call: "call" before, "done" after generate_signal
    config,             \* MomentumIVStrategy.config (MomentumIVConfig)
    context,            \* the StrategyContext handed to generate_signal
    signal,             \* outcome of generate_signal(context): [raised, direction, ...]
    bt_pc,              \* BacktestRunner.run: "loop" inside the for loop, "done" after return
    bt_config,          \* BacktestRunner.config (BacktestConfig)
    equity,             \* run's running equity
    equity_points,      \* run's equity_points
    trades,             \* run's trades ledger
    bt_item,            \* the (signal, context) of the latest loop iteration
    bt_branch,          \* the branch the latest iteration took
    stats,              \* the stats of the returned BacktestResult
    md_pc,              \* _max_drawdown call: "call" before, "done" after
    md_equity,          \* the equity Series handed to _max_drawdown
    md_result,          \* the value _max_drawdown returned
    lv_entry_price,     \* entry_price handed to stop_loss_price / take_profit_price
    lv_risk_fraction,   \* risk_fraction handed to both
    lv_reward_multiplier, \* reward_multiplier handed to take_profit_price
    lv_stop,            \* the value stop_loss_price returned, once called
    lv_limit,           \* the value take_profit_price returned, once called
    at_pc,              \* AutoTrader.run_once: "start", "build", "execute", "record", "done", "raised"
    at_config,          \* AutoTrader.config (AutoTraderConfig)
    context_cls,        \* which StrategyContext the loader instantiates
    at_total,           \* number of contexts built from the snapshot
    at_processed,       \* contexts the for loop has finished
    at_item,            \* the (signal, context) of the latest _build_intent
    at_gate,            \* the outcome of the latest _build_intent
    intents,            \* run_once's intents list
    at_result,          \* the result of _execute_intent awaiting _record_intent
    alpaca_calls,       \* the submit_option_order calls received by the client
    audit_log,          \* the lines of the log file
    at_error,           \* the exception that ended run_once, if any
    lq_config,          \* AutoTrader.config of a _build_intent call
    lq_item,            \* the (signal, context) handed to _build_intent
    lq_result,          \* the outcome of _build_intent, once called
    mc_pc,              \* collect_market_snapshot: "loop", "done" after return, "raised"
    mc_settings,        \* the collector's settings and the call's flags
    mc_total,           \* number of tickers of ticker_list
    snapshot,           \* collect_market_snapshot's snapshot, in insertion order
    mc_failures,        \* per ticker visited, the collections a collaborator failed in
    rl_cycles,          \* run_loop: cycles of run_once completed
    rl_sleeps,          \* run_loop: the durations handed to time.sleep, in order
    rl_mark,            \* lengths of alpaca_calls and audit_log when the cycle began
    xp_signal,          \* the signal handed to _simulate_exit_price
    xp_context,         \* the context handed to it
    xp_entry,           \* the entry_price handed to it
    xp_exit             \* the price it returned, once called

rm_vars == <<rm_pc, max_daily_loss_pct, min_confidence, params, rm_result>>
st_vars == <<st_pc, config, context, signal>>

bt_vars == <<bt_pc, bt_config, equity, equity_points, trades, bt_item, bt_branch, stats>>

md_vars == <<md_pc, md_equity, md_result>>

lv_vars == <<lv_entry_price, lv_risk_fraction, lv_reward_multiplier, lv_stop, lv_limit>>

at_vars == <<at_pc, at_config, context_cls, at_total, at_processed, at_item, at_gate,
             intents, at_result, alpaca_calls, audit_log, at_error>>

lq_vars == <<lq_config, lq_item, lq_result>>

mc_vars == <<mc_pc, mc_settings, mc_total, snapshot, mc_failures>>

rl_vars == <<rl_cycles, rl_sleeps, rl_mark>>

xp_vars == <<xp_signal, xp_context, xp_entry, xp_exit>>

vars == <<rm_vars, st_vars, bt_vars, md_vars, lv_vars, at_vars, lq_vars, mc_vars,
          rl_vars, xp_vars>>

----------------------------------------------------------------------------
(* Exact rational arithmetic standing for Python float arithmetic.         *)

Abs(i) == IF i < 0 THEN -i ELSE i

RECURSIVE GCD(_, _)
GCD(a, b) == IF b = 0 THEN a ELSE GCD(b, a % b)

\* Each operator binds its arguments once (x, y range over singletons) and
\* then computes on the bound values.
R(n, d) ==
    CHOOSE r \in {[n |-> ((IF y < 0 THEN -1 ELSE 1) * x) \div GCD(Abs(x), Abs(y)),
                   d |-> ((IF y < 0 THEN -1 ELSE 1) * y) \div GCD(Abs(x), Abs(y))] :
                      x \in {n}, y \in {d}} : TRUE

RInt(i) == [n |-> i, d |-> 1]
RZero == RInt(0)
ROne == RInt(1)

\* sums and comparisons go through the least common denominator, products
\* cancel crosswise first, so that intermediate values stay small
RAdd(a, b) ==
    CHOOSE r \in {R(x.n * (y.d \div GCD(x.d, y.d)) + y.n * (x.d \div GCD(x.d, y.d)),
                    (x.d \div GCD(x.d, y.d)) * y.d) : x \in {a}, y \in {b}} : TRUE
RNeg(a) == CHOOSE r \in {[n |-> -x.n, d |-> x.d] : x \in {a}} : TRUE
RSub(a, b) == RAdd(a, RNeg(b))
RMul(a, b) ==
    CHOOSE r \in {R((x.n \div GCD(Abs(x.n), y.d)) * (y.n \div GCD(Abs(y.n), x.d)),
                    (x.d \div GCD(Abs(y.n), x.d)) * (y.d \div GCD(Abs(x.n), y.d))) :
                      x \in {a}, y \in {b}} : TRUE
RDiv(a, b) == RMul(a, CHOOSE r \in {R(y.d, y.n) : y \in {b}} : TRUE)
RAbs(a) == CHOOSE r \in {[n |-> Abs(x.n), d |-> x.d] : x \in {a}} : TRUE
RLt(a, b) ==
    \E x \in {a}, y \in {b} :
        x.n * (y.d \div GCD(x.d, y.d)) < y.n * (x.d \div GCD(x.d, y.d))
RLe(a, b) ==
    \E x \in {a}, y \in {b} :
        x.n * (y.d \div GCD(x.d, y.d)) <= y.n * (x.d \div GCD(x.d, y.d))
\* Python's min(a, b) / max(a, b): the first argument wins ties.
RMin(a, b) == IF RLt(b, a) THEN b ELSE a
RMax(a, b) == IF RLt(a, b) THEN b ELSE a
\* floor of a rational (Integers' \div rounds toward minus infinity)
RFloor(a) == a.n \div a.d

\* x ** 0.5 for a non-negative rational with a rational root
ISqrt(i) == CHOOSE k \in 0..i : k * k = i
RSqrt(a) == [n |-> ISqrt(a.n), d |-> ISqrt(a.d)]

----------------------------------------------------------------------------
(* RiskManager                                                             *)

IMin(a, b) == IF b < a THEN b ELSE a
IMax(a, b) == IF a < b THEN b ELSE a

\* risk_capital, altered: the requested fraction is not capped by the ceiling
risk_capital_uncapped(p, mdl) ==
    RMul(p.account_equity, p.trade_risk_fraction)

\* risk_capital = account_equity * min(trade_risk_fraction, max_daily_loss_pct)
risk_capital(p, mdl) ==
    RMul(p.account_equity, RMin(p.trade_risk_fraction, mdl))

\* clamp_qty, altered: the max_positions cap is dropped
clamp_qty_no_cap(qty, max_positions) == IMax(0, qty)

\* max(0, min(qty, max_positions))
clamp_qty(qty, max_positions) == IMax(0, IMin(qty, max_positions))

\* size_position, altered: the budget is divided by the price before the
\* price is checked, so a zero price raises ZeroDivisionError
size_position_divides_first(p, mdl, minc) ==
    IF RLt(p.confidence, minc)
    THEN [raised |-> FALSE, value |-> 0]
    ELSE IF p.contract_price = RZero \/ RLt(p.confidence, RZero)
    THEN [raised |-> TRUE, value |-> 0]
    ELSE IF RLt(p.contract_price, RZero)
    THEN [raised |-> FALSE, value |-> 0]
    ELSE LET budget == RMul(risk_capital(p, mdl), RSqrt(p.confidence))
             qty == RFloor(RDiv(budget, p.contract_price))
         IN  [raised |-> FALSE, value |-> clamp_qty(qty, p.max_positions)]

\* RiskManager.size_position; p is the PositionSizingInput, mdl and minc the
\* manager's max_daily_loss_pct and min_confidence.  A negative confidence
\* that passes the confidence gate makes confidence ** 0.5 complex, and the
\* floor division of the complex budget raises TypeError.
size_position(p, mdl, minc) ==
    IF RLt(p.confidence, minc)
    THEN [raised |-> FALSE, value |-> 0]
    ELSE IF RLe(p.contract_price, RZero)
    THEN [raised |-> FALSE, value |-> 0]
    ELSE IF RLt(p.confidence, RZero)
    THEN [raised |-> TRUE, value |-> 0]
    ELSE LET budget == RMul(risk_capital(p, mdl), RSqrt(p.confidence))
             qty == RFloor(RDiv(budget, p.contract_price))
         IN  [raised |-> FALSE, value |-> clamp_qty(qty, p.max_positions)]

\* stop_loss_price, altered: no floor at one cent
stop_loss_price_no_floor(entry_price, risk_fraction) ==
    RMul(entry_price, RSub(ROne, risk_fraction))

\* RiskManager.stop_loss_price
stop_loss_price(entry_price, risk_fraction) ==
    RMax(R(1, 100), RMul(entry_price, RSub(ROne, risk_fraction)))

\* RiskManager.take_profit_price
take_profit_price(entry_price, reward_multiplier, risk_fraction) ==
    RMul(entry_price, RAdd(ROne, RMul(reward_multiplier, risk_fraction)))

\* the default of take_profit_price's reward_multiplier
DefaultRewardMultiplier == RInt(2)

Pct(i) == R(i, 100)

EquityInputs == {RInt(-100), RZero, RInt(100), RInt(150)}
FractionInputs == {Pct(-1), Pct(0), Pct(2), Pct(5), Pct(10)}
PriceInputs == {RInt(-1), RZero, R(1, 2), R(3, 2), RInt(4)}
ConfidenceInputs == {Pct(-25), Pct(0), Pct(4), Pct(9), Pct(25), Pct(81), Pct(100), Pct(400)}
MaxPositionsInputs == {-1, 0, 1, 2, 3}
DailyLossInputs == {Pct(2), Pct(5)}
MinConfidenceInputs == {Pct(-100), Pct(20), Pct(30)}

PositionSizingInput ==
    [account_equity : EquityInputs,
     trade_risk_fraction : FractionInputs,
     contract_price : PriceInputs,
     confidence : ConfidenceInputs,
     max_positions : MaxPositionsInputs]

NoResult == [raised |-> FALSE, value |-> 0]

\* RiskManager() defaults and an unused PositionSizingInput, for the
\* specifications that do not call the manager directly
RiskIdle ==
    /\ rm_pc = "idle"
    /\ max_daily_loss_pct = Pct(5)
    /\ min_confidence = Pct(20)
    /\ params = [account_equity |-> RZero, trade_risk_fraction |-> RZero,
                 contract_price |-> RZero, confidence |-> RZero, max_positions |-> 0]
    /\ rm_result = NoResult

RiskInit ==
    /\ rm_pc = "call"
    /\ max_daily_loss_pct \in DailyLossInputs
    /\ min_confidence \in MinConfidenceInputs
    /\ params \in PositionSizingInput
    /\ rm_result = NoResult

SizePosition ==
    /\ rm_pc = "call"
    /\ rm_result' = size_position(params, max_daily_loss_pct, min_confidence)
    /\ rm_pc' = "done"
    /\ UNCHANGED <<max_daily_loss_pct, min_confidence, params>>

----------------------------------------------------------------------------
(* MomentumIVStrategy                                                      *)

\* Optional[float]: None, or a value
None == [has |-> FALSE, v |-> RZero]
Some(x) == [has |-> TRUE, v |-> x]

\* a float that may be NaN
NaN == [nan |-> TRUE, v |-> RZero]
Num(x) == [nan |-> FALSE, v |-> x]

\* MomentumIVConfig() with its dataclass defaults
DefaultConfig ==
    [lookback_minutes |-> 60,
     momentum_threshold |-> R(15, 10000),
     iv_squeeze_threshold |-> R(-5, 100),
     max_confidence |-> R(9, 10),
     baseline_confidence |-> R(35, 100),
     option_flow_threshold |-> R(2, 10),
     momentum_weight |-> R(40, 100),
     iv_weight |-> R(25, 100),
     news_weight |-> R(20, 100),
     option_flow_weight |-> R(15, 100)]

\* close.tail(n)
LastN(s, n) == IF Len(s) <= n THEN s ELSE SubSeq(s, Len(s) - n + 1, Len(s))

\* MomentumIVStrategy._compute_momentum; bars is the sequence of closes
compute_momentum(bars, cfg) ==
    IF bars = <<>> THEN RZero
    ELSE LET window == LastN(bars, cfg.lookback_minutes)
         IN  IF Len(window) < 2 THEN RZero
             ELSE R(window[Len(window)] - window[1], window[1])

\* one features.get(key): "none" (absent or None), "bad" (float() raises) or a number
feature_value(fv) ==
    IF fv.kind = "num" /\ fv.v # RZero THEN Some(fv.v) ELSE None

\* momentum_from_features, altered: only the alternate key is read
momentum_from_alt_feature(features) ==
    IF ~features.present THEN RZero
    ELSE IF feature_value(features.momentum_60).has THEN features.momentum_60.v
    ELSE RZero

\* MomentumIVStrategy._momentum_from_features
momentum_from_features(features) ==
    IF ~features.present THEN RZero
    ELSE IF feature_value(features.momentum_15).has THEN features.momentum_15.v
    ELSE IF feature_value(features.momentum_60).has THEN features.momentum_60.v
    ELSE RZero

\* quote.get("bid") or quote.get("bid_price"): a zero is taken as missing
\* (the *_price aliases are absent in the modelled quotes)
truthy(opt) == IF opt.has /\ opt.v # RZero THEN opt ELSE None

\* MomentumIVStrategy._quote_mid
quote_mid(quote) ==
    IF ~quote.present THEN None
    ELSE LET bid == truthy(quote.bid)
             ask == truthy(quote.ask)
         IN  IF ~bid.has /\ ~ask.has THEN None
             ELSE IF ~bid.has THEN ask
             ELSE IF ~ask.has THEN bid
             ELSE Some(RDiv(RAdd(bid.v, ask.v), RInt(2)))

\* MomentumIVStrategy._momentum_from_quotes
momentum_from_quotes(option_quote) ==
    LET call_mid == quote_mid(option_quote.CALL)
        put_mid == quote_mid(option_quote.PUT)
    IN  IF ~call_mid.has \/ ~put_mid.has THEN RZero
        ELSE LET total == RAdd(call_mid.v, put_mid.v)
             IN  IF RLe(total, RZero) THEN RZero
                 ELSE RDiv(RSub(call_mid.v, put_mid.v), total)

RECURSIVE RSum(_)
RSum(s) == IF s = <<>> THEN RZero ELSE RAdd(Head(s), RSum(Tail(s)))

RECURSIVE Collect(_, _)
\* the values of one optional field over a sequence of legs, in order
Collect(legs, field) ==
    IF legs = <<>> THEN <<>>
    ELSE LET x == Head(legs)[field]
         IN  (IF x.has THEN <<x.v>> ELSE <<>>) \o Collect(Tail(legs), field)

\* MomentumIVStrategy._extract_iv_metrics, the "iv_change" entry
extract_iv_change(option_chain, option_metrics) ==
    IF option_chain = <<>> THEN NaN
    ELSE LET iv_changes == Collect(option_chain, "iv_change")
                           \o Collect(option_metrics, "vega")
         IN  IF iv_changes = <<>> THEN NaN
             ELSE Num(RDiv(RSum(iv_changes), RInt(Len(iv_changes))))

\* _determine_direction, altered: the flow bias is tested before the momentum
determine_direction_flow_first(momentum, iv_change, flow_bias, cfg) ==
    LET effective_threshold ==
            IF iv_change.nan THEN RMul(cfg.momentum_threshold, R(1, 2))
            ELSE cfg.momentum_threshold
    IN  IF RLe(cfg.option_flow_threshold, RAbs(flow_bias))
        THEN (IF RLt(RZero, flow_bias) THEN "CALL" ELSE "PUT")
        ELSE IF RLt(effective_threshold, momentum) THEN "CALL"
        ELSE IF RLt(momentum, RNeg(effective_threshold)) THEN "PUT"
        ELSE "NONE"

\* _determine_direction, altered: the threshold is not relaxed for a NaN
\* iv_change
determine_direction_full_threshold(momentum, iv_change, flow_bias, cfg) ==
    IF RLt(cfg.momentum_threshold, momentum) THEN "CALL"
    ELSE IF RLt(momentum, RNeg(cfg.momentum_threshold)) THEN "PUT"
    ELSE IF RLe(cfg.option_flow_threshold, RAbs(flow_bias))
    THEN (IF RLt(RZero, flow_bias) THEN "CALL" ELSE "PUT")
    ELSE "NONE"

\* MomentumIVStrategy._determine_direction
determine_direction(momentum, iv_change, flow_bias, cfg) ==
    LET effective_threshold ==
            IF iv_change.nan THEN RMul(cfg.momentum_threshold, R(1, 2))
            ELSE cfg.momentum_threshold
    IN  IF /\ RLt(effective_threshold, momentum)
           /\ ~iv_change.nan
           /\ RLe(iv_change.v, cfg.iv_squeeze_threshold)
        THEN "CALL"
        ELSE IF /\ RLt(momentum, RNeg(effective_threshold))
                /\ ~iv_change.nan
                /\ RLe(RNeg(cfg.iv_squeeze_threshold), iv_change.v)
        THEN "PUT"
        ELSE IF RLt(effective_threshold, momentum) THEN "CALL"
        ELSE IF RLt(momentum, RNeg(effective_threshold)) THEN "PUT"
        ELSE IF RLe(cfg.option_flow_threshold, RAbs(flow_bias))
        THEN (IF RLt(RZero, flow_bias) THEN "CALL" ELSE "PUT")
        ELSE "NONE"

\* confidence_score, altered: the baseline floor is not applied
confidence_score_no_floor(momentum, iv_change, news_bias, flow_bias, cfg) ==
    LET momentum_score ==
            RMin(RDiv(RAbs(momentum), RMul(cfg.momentum_threshold, RInt(2))), ROne)
        iv_score ==
            IF iv_change.nan THEN RZero
            ELSE RMin(RDiv(RAbs(iv_change.v), R(1, 10)), ROne)
        flow_score == RMin(RAbs(flow_bias), ROne)
        weighted == RAdd(RAdd(RMul(cfg.momentum_weight, momentum_score),
                              RMul(cfg.iv_weight, iv_score)),
                         RAdd(RMul(cfg.news_weight, news_bias),
                              RMul(cfg.option_flow_weight, flow_score)))
    IN  RMax(RZero, RMin(RMul(weighted, cfg.max_confidence), cfg.max_confidence))

\* MomentumIVStrategy._confidence_score
confidence_score(momentum, iv_change, news_bias, flow_bias, cfg) ==
    LET momentum_score ==
            RMin(RDiv(RAbs(momentum), RMul(cfg.momentum_threshold, RInt(2))), ROne)
        iv_score ==
            IF iv_change.nan THEN RZero
            ELSE RMin(RDiv(RAbs(iv_change.v), R(1, 10)), ROne)
        flow_score == RMin(RAbs(flow_bias), ROne)
        sum_weights == RAdd(RAdd(cfg.momentum_weight, cfg.iv_weight),
                            RAdd(cfg.news_weight, cfg.option_flow_weight))
        total_weight == IF sum_weights = RZero THEN ROne ELSE sum_weights
        weighted == RAdd(RAdd(RMul(cfg.momentum_weight, momentum_score),
                              RMul(cfg.iv_weight, iv_score)),
                         RAdd(RMul(cfg.news_weight, news_bias),
                              RMul(cfg.option_flow_weight, flow_score)))
        baseline == RDiv(cfg.baseline_confidence, cfg.max_confidence)
        raw == RMax(baseline, RDiv(weighted, total_weight))
    IN  RMax(RZero, RMin(RMul(raw, cfg.max_confidence), cfg.max_confidence))

PositiveKeywords == {"beats", "surge", "upgrade", "positive"}
NegativeKeywords == {"misses", "downgrade", "negative", "lawsuit"}

\* str(article.get("description") or article.get("title") or "").lower();
\* a text is the set of keywords it contains, "" when empty or absent
summary(article) ==
    IF article.description.empty THEN article.title.words
    ELSE article.description.words

RECURSIVE CountHits(_, _)
CountHits(news_items, keywords) ==
    IF news_items = <<>> THEN 0
    ELSE (IF summary(Head(news_items)) \cap keywords # {} THEN 1 ELSE 0)
         + CountHits(Tail(news_items), keywords)

\* MomentumIVStrategy._news_bias
news_bias_of(news_items) ==
    IF news_items = <<>> THEN R(1, 2)
    ELSE LET positive == CountHits(news_items, PositiveKeywords)
             negative == CountHits(news_items, NegativeKeywords)
             total == positive + negative
         IN  IF total = 0 THEN R(1, 2)
             ELSE RMax(RZero, RMin(R(positive, total), ROne))

\* str.upper() on the contract types that occur
Upper(s) == CASE s = "call" -> "CALL" [] s = "put" -> "PUT" [] OTHER -> s

\* MomentumIVStrategy._infer_contract_type; a symbol is modelled by its
\* length and its character at [-9:-8]
infer_contract_type(symbol) ==
    IF symbol.len < 15 THEN "NONE"
    ELSE IF symbol.flag = "C" THEN "CALL"
    ELSE IF symbol.flag = "P" THEN "PUT"
    ELSE "NONE"

\* MomentumIVStrategy._estimate_liquidity
estimate_liquidity(payload) ==
    LET estimate == IMax(IMax(payload.bid_size, payload.ask_size), payload.trade_size)
    IN  IF estimate > 0 THEN Some(RInt(estimate)) ELSE None

\* the body of _ingest's loop for one payload: the accumulators after it
ingest_payload(acc, payload) ==
    LET declared == Upper(payload.contract_type)
        contract_type == IF declared = "" THEN infer_contract_type(payload.symbol)
                         ELSE declared
        open_interest == IF ~payload.open_interest.has
                            \/ RLt(payload.open_interest.v, RZero)
                         THEN estimate_liquidity(payload)
                         ELSE payload.open_interest
        delta == IF payload.delta.has THEN payload.delta.v ELSE RZero
        weight == IF open_interest.has /\ RLt(RZero, open_interest.v)
                  THEN open_interest.v ELSE RAbs(delta)
    IN  IF contract_type \notin {"CALL", "PUT"} THEN acc
        ELSE IF RLe(weight, RZero) THEN acc
        ELSE IF contract_type = "CALL"
        THEN [acc EXCEPT !.call_oi = RAdd(@, weight),
                         !.call_delta = RAdd(@, RMul(delta, weight))]
        ELSE [acc EXCEPT !.put_oi = RAdd(@, weight),
                         !.put_delta = RAdd(@, RMul(delta, weight))]

RECURSIVE ingest(_, _)
\* _ingest(source): fold of the loop over the source's payloads
ingest(acc, source) ==
    IF source = <<>> THEN acc
    ELSE ingest(ingest_payload(acc, Head(source)), Tail(source))

Clamp1(x) == RMax(RNeg(ROne), RMin(x, ROne))

\* option_flow_metrics, altered: no fallback to the option chain
option_flow_metrics_no_fallback(option_metrics, option_chain) ==
    LET zero == [call_oi |-> RZero, put_oi |-> RZero,
                 call_delta |-> RZero, put_delta |-> RZero]
        acc == ingest(zero, option_metrics)
        total_weight == RAdd(acc.call_oi, acc.put_oi)
        flow_ratio == IF RLt(RZero, total_weight)
                      THEN RDiv(RSub(acc.call_oi, acc.put_oi), total_weight)
                      ELSE RZero
        aggregated_delta == IF RLt(RZero, total_weight)
                            THEN RDiv(RAdd(acc.call_delta, acc.put_delta), total_weight)
                            ELSE RZero
    IN  [call_open_interest |-> acc.call_oi,
         put_open_interest |-> acc.put_oi,
         flow_ratio |-> Clamp1(flow_ratio),
         delta_bias |-> Clamp1(aggregated_delta)]

\* MomentumIVStrategy._option_flow_metrics
option_flow_metrics(option_metrics, option_chain) ==
    LET zero == [call_oi |-> RZero, put_oi |-> RZero,
                 call_delta |-> RZero, put_delta |-> RZero]
        first == ingest(zero, option_metrics)
        acc == IF RAdd(first.call_oi, first.put_oi) = RZero
               THEN ingest(first, option_chain) ELSE first
        total_weight == RAdd(acc.call_oi, acc.put_oi)
        flow_ratio == IF RLt(RZero, total_weight)
                      THEN RDiv(RSub(acc.call_oi, acc.put_oi), total_weight)
                      ELSE RZero
        aggregated_delta == IF RLt(RZero, total_weight)
                            THEN RDiv(RAdd(acc.call_delta, acc.put_delta), total_weight)
                            ELSE RZero
    IN  [call_open_interest |-> acc.call_oi,
         put_open_interest |-> acc.put_oi,
         flow_ratio |-> Clamp1(flow_ratio),
         delta_bias |-> Clamp1(aggregated_delta)]

\* the momentum of generate_signal, altered: the quote momentum is added to
\* the value it would replace
final_momentum_additive(ctx, cfg) ==
    LET m0 == compute_momentum(ctx.underlying_bars, cfg)
        fallback_momentum == momentum_from_features(ctx.features)
        m1 == IF /\ RLt(RAbs(m0), cfg.momentum_threshold)
                 /\ RLt(RAbs(m0), RAbs(fallback_momentum))
              THEN fallback_momentum ELSE m0
        quote_momentum == momentum_from_quotes(ctx.option_quote)
    IN  IF /\ RLt(RAbs(m1), cfg.momentum_threshold)
           /\ RLt(RAbs(m1), RAbs(quote_momentum))
        THEN RAdd(m1, quote_momentum) ELSE m1

\* the momentum after the two fallbacks (generate_signal, lines 265-273)
final_momentum(ctx, cfg) ==
    LET m0 == compute_momentum(ctx.underlying_bars, cfg)
        fallback_momentum == momentum_from_features(ctx.features)
        m1 == IF /\ RLt(RAbs(m0), cfg.momentum_threshold)
                 /\ RLt(RAbs(m0), RAbs(fallback_momentum))
              THEN fallback_momentum ELSE m0
        quote_momentum == momentum_from_quotes(ctx.option_quote)
    IN  IF /\ RLt(RAbs(m1), cfg.momentum_threshold)
           /\ RLt(RAbs(m1), RAbs(quote_momentum))
        THEN quote_momentum ELSE m1

\* the larger in magnitude of flow_ratio and delta_bias (lines 277-279)
effective_flow_bias(flow_metrics) ==
    IF RLt(RAbs(flow_metrics.flow_ratio), RAbs(flow_metrics.delta_bias))
    THEN flow_metrics.delta_bias ELSE flow_metrics.flow_ratio

NoSignal ==
    [raised |-> FALSE, direction |-> "-", confidence |-> RZero,
     momentum |-> RZero, iv_change |-> NaN, news_bias |-> RZero,
     flow_ratio |-> RZero, delta_bias |-> RZero]

\* MomentumIVStrategy.generate_signal.  StrategyContext declares no
\* option_metrics field, so reading context.option_metrics raises
\* AttributeError unless the attribute was set on the object.
generate_signal(ctx, cfg) ==
    IF ~ctx.has_option_metrics THEN [NoSignal EXCEPT !.raised = TRUE]
    ELSE LET momentum == final_momentum(ctx, cfg)
             iv_change == extract_iv_change(ctx.option_chain, ctx.option_metrics)
             flow_metrics == option_flow_metrics(ctx.option_metrics, ctx.option_chain)
             flow_bias == effective_flow_bias(flow_metrics)
             news_bias == news_bias_of(ctx.news_items)
         IN  [raised |-> FALSE,
              direction |-> determine_direction(momentum, iv_change, flow_bias, cfg),
              confidence |-> confidence_score(momentum, iv_change, news_bias, flow_bias, cfg),
              momentum |-> momentum,
              iv_change |-> iv_change,
              news_bias |-> news_bias,
              flow_ratio |-> flow_metrics.flow_ratio,
              delta_bias |-> flow_metrics.delta_bias]

----------------------------------------------------------------------------
(* Inputs of generate_signal                                               *)

MaxLegs == 2    \* longest option_chain / option_metrics drawn
MaxNews == 2    \* longest news_items drawn

SeqUpTo(S, n) == UNION {[1..k -> S] : k \in 0..n}

Leg(ct, symlen, flag, oi, bid_size, ask_size, trade_size, delta, ivc, vega) ==
    [contract_type |-> ct, symbol |-> [len |-> symlen, flag |-> flag],
     open_interest |-> oi, bid_size |-> bid_size, ask_size |-> ask_size,
     trade_size |-> trade_size, delta |-> delta, iv_change |-> ivc, vega |-> vega]

\* option_chain legs: typed by symbol with quote sizes only, a negative and
\* a zero open interest, a small call open interest
ChainLegs ==
    {Leg("", 19, "C", None, 50, 60, 0, Some(R(6, 10)), Some(R(-6, 100)), None),
     Leg("", 19, "P", Some(RInt(-1)), 5, 10, 0, Some(R(-3, 10)), None, None),
     Leg("CALL", 0, "X", Some(RInt(1)), 0, 0, 0, Some(R(1, 10)), None, None),
     Leg("put", 0, "X", Some(RZero), 0, 0, 0, Some(R(-9, 10)), Some(R(8, 100)), None)}

\* option_metrics entries; the last has no contract type and a short symbol
MetricLegs ==
    {Leg("call", 0, "X", Some(RInt(200)), 0, 0, 0, Some(R(55, 100)), None, Some(R(6, 100))),
     Leg("put", 0, "X", Some(RInt(50)), 0, 0, 0, Some(R(-4, 10)), None, None),
     Leg("", 5, "C", Some(RInt(7)), 0, 0, 3, None, None, Some(R(-8, 100)))}

BarInputs == {<<>>, <<1000>>, <<1000, 1001>>, <<1000, 990>>, <<1000, 1010, 1011>>}

FNone == [kind |-> "none", v |-> RZero]
FBad == [kind |-> "bad", v |-> RZero]
FNum(x) == [kind |-> "num", v |-> x]
Features(m15, m60) == [present |-> TRUE, momentum_15 |-> m15, momentum_60 |-> m60]
NoFeatures == [present |-> FALSE, momentum_15 |-> FNone, momentum_60 |-> FNone]

FeatureInputs ==
    {NoFeatures,
     Features(FNum(R(1, 100)), FNone),
     Features(FNum(R(-1, 100)), FNum(R(2, 100))),
     Features(FNum(RZero), FNum(R(2, 1000))),
     Features(FBad, FNum(R(-5, 10000))),
     Features(FNum(R(1, 1000)), FNone)}

NoQuote == [present |-> FALSE, bid |-> None, ask |-> None]
Quote(bid, ask) == [present |-> TRUE, bid |-> bid, ask |-> ask]
OptionQuote(call, put) == [CALL |-> call, PUT |-> put]
EmptyOptionQuote == OptionQuote(NoQuote, NoQuote)

QuoteInputs ==
    {EmptyOptionQuote,
     OptionQuote(Quote(Some(RInt(2)), Some(R(22, 10))), Quote(Some(R(5, 10)), Some(R(6, 10)))),
     OptionQuote(Quote(Some(R(5, 10)), Some(R(6, 10))), Quote(Some(RInt(2)), Some(R(22, 10)))),
     OptionQuote(Quote(Some(ROne), Some(ROne)), Quote(Some(R(1001, 1000)), Some(R(1001, 1000)))),
     OptionQuote(Quote(Some(RZero), Some(RInt(2))), NoQuote)}

Text(words) == [empty |-> FALSE, words |-> words]
NoText == [empty |-> TRUE, words |-> {}]
Article(description, title) == [description |-> description, title |-> title]

ArticleInputs ==
    {Article(Text({"beats"}), Text({"lawsuit"})),
     Article(NoText, Text({"downgrade"})),
     Article(Text({}), Text({"surge"}))}

ConfigInputs ==
    {DefaultConfig,
     [DefaultConfig EXCEPT !.lookback_minutes = 2,
                           !.baseline_confidence = R(1, 2),
                           !.max_confidence = ROne],
     [DefaultConfig EXCEPT !.baseline_confidence = R(95, 100)]}

Context(attr, bars, chain, metrics, quote, news, features) ==
    [has_option_metrics |-> attr, underlying_bars |-> bars, option_chain |-> chain,
     option_metrics |-> metrics, option_quote |-> quote, news_items |-> news,
     features |-> features]

\* a few (bars, features, option_quote) cases: no momentum, weak and strong
\* bar momentum, a strong positive and a weak negative features momentum
MomentumCases ==
    {<<b, f, q>> \in BarInputs \X FeatureInputs \X QuoteInputs :
        /\ q = EmptyOptionQuote
        /\ \/ b \in {<<>>, <<1000, 1001>>, <<1000, 990>>} /\ f = NoFeatures
           \/ b = <<>> /\ f \in {Features(FNum(R(1, 100)), FNone),
                                 Features(FBad, FNum(R(-5, 10000)))}}

\* a few (option_chain, option_metrics) cases
LegCases ==
    {<<chain, metrics>> \in SeqUpTo(ChainLegs, 1) \X SeqUpTo(MetricLegs, 1) :
        \/ chain = <<>> /\ metrics = <<>>
        \/ /\ chain # <<>> /\ chain[1].iv_change.has /\ chain[1].symbol.len > 0
           /\ (metrics = <<>>
               \/ (metrics[1].vega.has /\ metrics[1].open_interest.v.n > 7))}

\* every chain and metrics up to MaxLegs
LegRichContexts ==
    {Context(TRUE, m[1], chain, metrics, m[3], news, m[2]) :
        chain \in SeqUpTo(ChainLegs, MaxLegs),
        metrics \in SeqUpTo(MetricLegs, MaxLegs),
        m \in MomentumCases,
        news \in {<<>>, <<Article(Text({}), Text({"surge"}))>>}}

\* every bars, features and quote
MomentumRichContexts ==
    {Context(TRUE, bars, lc[1], lc[2], quote, <<>>, features) :
        bars \in BarInputs, features \in FeatureInputs, quote \in QuoteInputs,
        lc \in LegCases}

\* every news_items up to MaxNews
NewsRichContexts ==
    {Context(TRUE, m[1], lc[1], lc[2], m[3], news, m[2]) :
        news \in SeqUpTo(ArticleInputs, MaxNews), m \in MomentumCases, lc \in LegCases}

\* StrategyContext objects as the dataclass builds them: no option_metrics
AttrMissingContexts ==
    {Context(FALSE, bars, chain, <<>>, quote, news, features) :
        bars \in BarInputs, features \in FeatureInputs, quote \in QuoteInputs,
        chain \in SeqUpTo(ChainLegs, 1), news \in SeqUpTo(ArticleInputs, 1)}

StrategyContexts ==
    LegRichContexts \cup MomentumRichContexts \cup NewsRichContexts
        \cup AttrMissingContexts

StrategyIdle ==
    /\ st_pc = "idle"
    /\ config = DefaultConfig
    /\ context = Context(FALSE, <<>>, <<>>, <<>>, EmptyOptionQuote, <<>>, NoFeatures)
    /\ signal = NoSignal

StrategyInit ==
    /\ st_pc = "call"
    /\ config \in ConfigInputs
    /\ context \in StrategyContexts
    /\ signal = NoSignal

GenerateSignal ==
    /\ st_pc = "call"
    /\ signal' = generate_signal(context, config)
    /\ st_pc' = "done"
    /\ UNCHANGED <<config, context>>

----------------------------------------------------------------------------
(* BacktestRunner                                                          *)

\* BacktestConfig() with its dataclass defaults
DefaultBacktestConfig ==
    [starting_equity |-> RInt(150),
     risk_fraction |-> Pct(2),
     commission_per_contract |-> Pct(65),
     max_positions |-> 1]

\* the CALL quote first, whatever the signal's direction
directional_quote_call_first(option_quote, direction) ==
    IF option_quote.CALL.present THEN option_quote.CALL
    ELSE option_quote.PUT

\* the signal's quote when option_quote has a CALL or PUT key:
\* quote.get(direction) or quote.get("CALL") or quote.get("PUT")
directional_quote(option_quote, direction) ==
    IF direction \in {"CALL", "PUT"} /\ option_quote[direction].present
    THEN option_quote[direction]
    ELSE IF option_quote.CALL.present THEN option_quote.CALL
    ELSE option_quote.PUT

\* BacktestRunner._infer_entry_price
infer_entry_price(sig, ctx) ==
    IF sig.entry_price.has /\ sig.entry_price.v # RZero THEN sig.entry_price
    ELSE LET oq == ctx.option_quote
             quote == IF oq.sided THEN directional_quote(oq, sig.direction)
                      ELSE oq.flat
         IN  IF ~quote.present \/ ~quote.bid.has \/ ~quote.ask.has THEN None
             ELSE Some(RDiv(RAdd(quote.bid.v, quote.ask.v), RInt(2)))

\* BacktestRunner._underlying_return; bars is the sequence of closes
underlying_return(ctx) ==
    LET bars == ctx.underlying_bars
    IN  IF bars = <<>> THEN None
        ELSE IF bars[1] <= 0 THEN None
        ELSE Some(R(bars[Len(bars)] - bars[1], bars[1]))

\* BacktestRunner._signal_delta_hint: metadata.get("delta") or
\* metadata.get("delta_bias"), with the per-direction default when float()
\* of the result raises
signal_delta_hint(sig) ==
    LET md == sig.metadata
        delta == IF md.delta.has /\ md.delta.v # RZero THEN md.delta ELSE md.delta_bias
    IN  IF delta.has THEN delta.v
        ELSE IF sig.direction = "CALL" THEN R(5, 10)
        ELSE IF sig.direction = "PUT" THEN R(-4, 10)
        ELSE R(3, 10)

\* _simulate_exit_price, altered: every signal is projected as a CALL
simulate_exit_price_as_call(sig, ctx, entry_price) ==
    IF sig.target_price.has /\ sig.target_price.v # RZero THEN sig.target_price.v
    ELSE LET ret == underlying_return(ctx)
         IN  IF ret.has
             THEN LET delta_hint == signal_delta_hint(sig)
                      leverage == RMax(R(15, 10),
                                       RMin(RInt(8), RMul(RAbs(delta_hint), RInt(12))))
                      projected == RMul(entry_price, RAdd(ROne, RMul(ret.v, leverage)))
                  IN  RMax(RMul(entry_price, R(1, 10)), projected)
             ELSE RMul(entry_price, RAdd(ROne, RMul(R(2, 10), sig.confidence)))

\* _simulate_exit_price, altered: the projected price is not floored
simulate_exit_price_no_floor(sig, ctx, entry_price) ==
    IF sig.target_price.has /\ sig.target_price.v # RZero THEN sig.target_price.v
    ELSE LET ret == underlying_return(ctx)
             direction == IF sig.direction = "CALL" THEN ROne ELSE RNeg(ROne)
         IN  IF ret.has
             THEN LET delta_hint == signal_delta_hint(sig)
                      leverage == RMax(R(15, 10),
                                       RMin(RInt(8), RMul(RAbs(delta_hint), RInt(12))))
                  IN  RMul(entry_price,
                           RAdd(ROne, RMul(RMul(direction, ret.v), leverage)))
             ELSE RMul(entry_price,
                       RAdd(ROne, RMul(RMul(direction, R(2, 10)), sig.confidence)))

\* BacktestRunner._simulate_exit_price
simulate_exit_price(sig, ctx, entry_price) ==
    IF sig.target_price.has /\ sig.target_price.v # RZero THEN sig.target_price.v
    ELSE LET ret == underlying_return(ctx)
             direction == IF sig.direction = "CALL" THEN ROne ELSE RNeg(ROne)
         IN  IF ret.has
             THEN LET delta_hint == signal_delta_hint(sig)
                      leverage == RMax(R(15, 10),
                                       RMin(RInt(8), RMul(RAbs(delta_hint), RInt(12))))
                      option_return == RMul(RMul(direction, ret.v), leverage)
                      projected == RMul(entry_price, RAdd(ROne, option_return))
                      floor_price == RMul(entry_price, R(1, 10))
                  IN  RMax(floor_price, projected)
             ELSE RMul(entry_price,
                       RAdd(ROne, RMul(RMul(direction, R(2, 10)), sig.confidence)))

\* the P&L with the commission charged one way only
trade_pnl_one_way(direction, entry_price, exit_price, size, commission) ==
    LET gross == RMul(RSub(exit_price, entry_price), RInt(size))
        signed == IF direction = "PUT" THEN RNeg(gross) ELSE gross
    IN  RSub(signed, RMul(commission, RInt(size)))

\* the realised P&L of one trade (run, lines 79-83)
trade_pnl(direction, entry_price, exit_price, size, commission) ==
    LET gross == RMul(RSub(exit_price, entry_price), RInt(size))
        signed == IF direction = "PUT" THEN RNeg(gross) ELSE gross
    IN  RSub(signed, RMul(RMul(commission, RInt(size)), RInt(2)))

\* the skip test without the direction check
signal_skipped_confidence_only(sig) ==
    RLe(sig.confidence, RZero)

\* the first skip test of the loop (run, line 56)
signal_skipped(sig) ==
    sig.direction = "NONE" \/ RLe(sig.confidence, RZero)

\* one iteration of the loop of run, altered: the position is sized from
\* the starting equity
run_iteration_sized_from_start(sig, ctx, eq, cfg, mdl, minc) ==
    IF signal_skipped(sig)
    THEN [branch |-> "skip_signal", trade |-> <<>>, equity |-> eq]
    ELSE LET entry == infer_entry_price(sig, ctx)
         IN  IF ~entry.has
             THEN [branch |-> "skip_price", trade |-> <<>>, equity |-> eq]
             ELSE LET sized == size_position(
                                 [account_equity |-> cfg.starting_equity,
                                  trade_risk_fraction |-> cfg.risk_fraction,
                                  contract_price |-> entry.v,
                                  confidence |-> sig.confidence,
                                  max_positions |-> cfg.max_positions],
                                 mdl, minc)
                      size == sized.value
                  IN  IF size = 0
                      THEN [branch |-> "skip_size", trade |-> <<>>, equity |-> eq]
                      ELSE LET exit_price == simulate_exit_price(sig, ctx, entry.v)
                               pnl == trade_pnl(sig.direction, entry.v, exit_price,
                                                size, cfg.commission_per_contract)
                           IN  [branch |-> "trade",
                                trade |-> <<[direction |-> sig.direction,
                                             entry_price |-> entry.v,
                                             exit_price |-> exit_price,
                                             quantity |-> size,
                                             pnl |-> pnl,
                                             confidence |-> sig.confidence]>>,
                                equity |-> RAdd(eq, pnl)]

\* one iteration of the loop of run on (signal, context) at the running
\* equity: the branch taken and the trade recorded, if any
run_iteration(sig, ctx, eq, cfg, mdl, minc) ==
    IF signal_skipped(sig)
    THEN [branch |-> "skip_signal", trade |-> <<>>, equity |-> eq]
    ELSE LET entry == infer_entry_price(sig, ctx)
         IN  IF ~entry.has
             THEN [branch |-> "skip_price", trade |-> <<>>, equity |-> eq]
             ELSE LET sized == size_position(
                                 [account_equity |-> eq,
                                  trade_risk_fraction |-> cfg.risk_fraction,
                                  contract_price |-> entry.v,
                                  confidence |-> sig.confidence,
                                  max_positions |-> cfg.max_positions],
                                 mdl, minc)
                      size == sized.value
                  IN  IF size = 0
                      THEN [branch |-> "skip_size", trade |-> <<>>, equity |-> eq]
                      ELSE LET exit_price == simulate_exit_price(sig, ctx, entry.v)
                               pnl == trade_pnl(sig.direction, entry.v, exit_price,
                                                size, cfg.commission_per_contract)
                           IN  [branch |-> "trade",
                                trade |-> <<[direction |-> sig.direction,
                                             entry_price |-> entry.v,
                                             exit_price |-> exit_price,
                                             quantity |-> size,
                                             pnl |-> pnl,
                                             confidence |-> sig.confidence]>>,
                                equity |-> RAdd(eq, pnl)]

RECURSIVE CumMax(_, _)
\* equity.cummax(): the running maximum, given the maximum so far
CumMax(points, sofar) ==
    IF points = <<>> THEN <<>>
    ELSE LET m == IF sofar.has /\ RLe(Head(points), sofar.v) THEN sofar.v
                  ELSE Head(points)
         IN  <<m>> \o CumMax(Tail(points), Some(m))

\* a float that may be NaN or infinite: the results of a division by zero
DNum(x) == [kind |-> "num", v |-> x]
DNaN == [kind |-> "nan", v |-> RZero]
DInf == [kind |-> "inf", v |-> RZero]
DNegInf == [kind |-> "-inf", v |-> RZero]

\* one entry of (equity - running_max) / running_max: pandas divides
\* elementwise, 0 / 0 is NaN and x / 0 is infinite with the sign of x
drawdown_at(point, running_max) ==
    IF running_max # RZero THEN DNum(RDiv(RSub(point, running_max), running_max))
    ELSE IF point = RZero THEN DNaN
    ELSE IF RLt(point, RZero) THEN DNegInf
    ELSE DInf

\* the smaller of two entries, NaN skipped (Series.min skips NaN)
drawdown_min(a, b) ==
    IF a.kind = "nan" THEN b
    ELSE IF b.kind = "nan" THEN a
    ELSE IF a.kind = "-inf" \/ b.kind = "-inf" THEN DNegInf
    ELSE IF a.kind = "inf" THEN b
    ELSE IF b.kind = "inf" THEN a
    ELSE IF RLe(a.v, b.v) THEN a ELSE b

RECURSIVE MinDrawdown(_, _, _)
\* drawdown.min() over (equity - running_max) / running_max, given the
\* minimum so far; NaN when every entry is NaN
MinDrawdown(points, maxima, sofar) ==
    IF points = <<>> THEN sofar
    ELSE MinDrawdown(Tail(points), Tail(maxima),
                     drawdown_min(sofar, drawdown_at(Head(points), Head(maxima))))

\* abs of a float
drawdown_abs(a) ==
    IF a.kind = "num" THEN DNum(RAbs(a.v))
    ELSE IF a.kind = "nan" THEN DNaN
    ELSE DInf

\* BacktestRunner._max_drawdown
max_drawdown(points) ==
    IF points = <<>> THEN DNum(RZero)
    ELSE drawdown_abs(MinDrawdown(points, CumMax(points, None), DNaN))

\* the stats of run, altered: num_trades counts equity points
run_stats_counts_points(eq, points, trade_list, cfg) ==
    [final_equity |-> eq,
     return_pct |-> RSub(RDiv(eq, cfg.starting_equity), ROne),
     max_drawdown |-> max_drawdown(points),
     num_trades |-> Len(points)]

\* the stats dict run returns
run_stats(eq, points, trade_list, cfg) ==
    [final_equity |-> eq,
     return_pct |-> RSub(RDiv(eq, cfg.starting_equity), ROne),
     max_drawdown |-> max_drawdown(points),
     num_trades |-> Len(trade_list)]

----------------------------------------------------------------------------
(* Inputs of BacktestRunner.run                                            *)

MaxContexts == 2    \* most contexts the snapshots iterable yields

BtSignal(direction, confidence, entry_price, target_price, metadata) ==
    [direction |-> direction, confidence |-> confidence, entry_price |-> entry_price,
     target_price |-> target_price, metadata |-> metadata]

Metadata(delta, delta_bias) == [delta |-> delta, delta_bias |-> delta_bias]
NoMetadata == Metadata(None, None)

\* option_quote of a backtest context: whether it has a CALL or PUT key,
\* the values under the two keys (NoQuote when missing, None or empty), and
\* the bid and ask found in the dict itself
BtOptionQuote(sided, call, put, flat) ==
    [sided |-> sided, CALL |-> call, PUT |-> put, flat |-> flat]

BothQuotes ==
    BtOptionQuote(TRUE, Quote(Some(ROne), Some(RInt(2))),
                  Quote(Some(R(5, 10)), Some(R(7, 10))), NoQuote)

BtQuoteInputs ==
    {BothQuotes,
     BtOptionQuote(TRUE, NoQuote, Quote(Some(R(9, 10)), Some(R(11, 10))), NoQuote),
     BtOptionQuote(FALSE, NoQuote, NoQuote, NoQuote),
     BtOptionQuote(TRUE, Quote(Some(ROne), None),
                   Quote(Some(R(5, 10)), Some(R(7, 10))), NoQuote),
     BtOptionQuote(FALSE, NoQuote, NoQuote, Quote(Some(ROne), Some(R(14, 10)))),
     BtOptionQuote(TRUE, NoQuote, NoQuote, Quote(Some(ROne), Some(R(14, 10))))}

UpBars == <<100, 101>>
BtBarInputs == {<<>>, UpBars, <<100, 94>>, <<0, 5>>}

BtMetadataInputs ==
    {NoMetadata, Metadata(Some(R(6, 10)), None), Metadata(Some(RZero), Some(R(-5, 100)))}

\* option_aggregates of a context: the closes of the CALL and PUT bars
Aggregates(call, put) == [CALL |-> call, PUT |-> put]
NoAggregates == Aggregates(<<>>, <<>>)

BtAggregateInputs ==
    {NoAggregates,
     Aggregates(<<R(25, 10), RInt(3)>>, <<>>),
     Aggregates(<<R(25, 10), RInt(3)>>, <<R(4, 10), R(3, 10)>>)}

\* a context as run reads it, and the option_aggregates it carries
BtContext(option_quote, bars, option_aggregates) ==
    [option_quote |-> option_quote, underlying_bars |-> bars,
     option_aggregates |-> option_aggregates]

BtItem(sig, ctx) == [signal |-> sig, context |-> ctx]

\* the fields an iteration never reads stay at one value: a skipped signal
\* reads nothing else, an explicit entry price hides the quote, an
\* unresolved entry or an explicit target hides bars and metadata; the
\* quotes are varied on the default exit only, at a confidence that sizes,
\* bars and metadata on quoted entries only, metadata on one bar series
\* only, and the aggregates on the quoted default trade only
ReadFieldsOnly(item) ==
    LET sig == item.signal
        ctx == item.context
        explicit_entry == sig.entry_price.has /\ sig.entry_price.v # RZero
        exit_default == /\ ctx.underlying_bars = UpBars
                        /\ sig.metadata = NoMetadata
                        /\ ~sig.target_price.has
    IN  /\ signal_skipped(sig)
            => (~sig.entry_price.has /\ ctx.option_quote = BothQuotes /\ exit_default)
        /\ sig.entry_price.has
            => (/\ ctx.option_quote = BothQuotes
                /\ ctx.underlying_bars = UpBars
                /\ sig.metadata = NoMetadata)
        /\ ~infer_entry_price(sig, ctx).has => exit_default
        /\ RLt(sig.confidence, Pct(20))
            => (ctx.option_quote = BothQuotes /\ exit_default)
        /\ sig.target_price.has
            => (ctx.underlying_bars = UpBars /\ sig.metadata = NoMetadata)
        /\ ctx.underlying_bars # UpBars => sig.metadata = NoMetadata
        /\ ctx.option_quote # BothQuotes => exit_default
        /\ ctx.option_aggregates # NoAggregates
            => (/\ ctx.option_quote = BothQuotes
                /\ exit_default
                /\ ~sig.entry_price.has
                /\ sig.direction # "NONE"
                /\ sig.confidence = Pct(81))

BtItems ==
    {item \in {BtItem(BtSignal(d, c, e, t, md), BtContext(q, b, ag)) :
                  d \in {"CALL", "PUT", "NONE"},
                  c \in {RZero, Pct(4), Pct(81)},
                  e \in {None, Some(RZero), Some(RInt(2))},
                  t \in {None, Some(RInt(3))},
                  md \in BtMetadataInputs,
                  q \in BtQuoteInputs,
                  b \in BtBarInputs,
                  ag \in BtAggregateInputs} :
        ReadFieldsOnly(item)}

BtConfigInputs ==
    {DefaultBacktestConfig,
     [DefaultBacktestConfig EXCEPT !.max_positions = 2]}

NoItem == BtItem(BtSignal("NONE", RZero, None, None, NoMetadata),
                 BtContext(BtOptionQuote(FALSE, NoQuote, NoQuote, NoQuote), <<>>,
                           NoAggregates))

NoStats == [final_equity |-> RZero, return_pct |-> RZero,
            max_drawdown |-> DNum(RZero), num_trades |-> 0]

BacktestIdle ==
    /\ bt_pc = "idle"
    /\ bt_config = DefaultBacktestConfig
    /\ equity = RZero
    /\ equity_points = <<>>
    /\ trades = <<>>
    /\ bt_item = NoItem
    /\ bt_branch = "none"
    /\ stats = NoStats

\* run, lines 50-52
BacktestInit ==
    /\ bt_pc = "loop"
    /\ bt_config \in BtConfigInputs
    /\ equity = bt_config.starting_equity
    /\ equity_points = <<>>
    /\ trades = <<>>
    /\ bt_item = NoItem
    /\ bt_branch = "none"
    /\ stats = NoStats

\* a small account with a heavy commission: one losing trade takes the
\* running equity below zero
SmallAccountConfig ==
    [starting_equity |-> RInt(20),
     risk_fraction |-> Pct(5),
     commission_per_contract |-> RInt(10),
     max_positions |-> 1]

\* run, lines 50-52, on the small account
SmallAccountInit ==
    /\ bt_pc = "loop"
    /\ bt_config = SmallAccountConfig
    /\ equity = bt_config.starting_equity
    /\ equity_points = <<>>
    /\ trades = <<>>
    /\ bt_item = NoItem
    /\ bt_branch = "none"
    /\ stats = NoStats

\* one iteration of the for loop of run: the strategy's signal for the next
\* context, then skip or trade
RunIteration ==
    /\ bt_pc = "loop"
    /\ Len(equity_points) < MaxContexts
    /\ \E item \in BtItems :
          \E r \in {run_iteration(item.signal, item.context, equity, bt_config,
                                  max_daily_loss_pct, min_confidence)} :
              /\ equity' = r.equity
              /\ equity_points' = Append(equity_points, r.equity)
              /\ trades' = trades \o r.trade
              /\ bt_item' = item
              /\ bt_branch' = r.branch
    /\ UNCHANGED <<bt_pc, bt_config, stats>>

\* the snapshots are exhausted: stats and return (run, lines 99-106)
RunReturn ==
    /\ bt_pc = "loop"
    /\ stats' = run_stats(equity, equity_points, trades, bt_config)
    /\ bt_pc' = "done"
    /\ UNCHANGED <<bt_config, equity, equity_points, trades, bt_item, bt_branch>>

----------------------------------------------------------------------------
(* AutoTrader                                                              *)

\* AutoTraderConfig() with its dataclass defaults
DefaultAutoTraderConfig ==
    [min_confidence |-> Pct(55),
     trade_risk_fraction |-> Pct(2),
     max_positions |-> 1,
     account_equity |-> RInt(150),
     dry_run |-> TRUE,
     min_option_agg_bars |-> 0,
     min_option_agg_volume |-> RZero,
     min_option_agg_vwap |-> RZero,
     sleep_seconds |-> 60]

\* a leg of option_quote: its bid, ask and symbol entries
AtLeg(bid, ask, symbol) == [present |-> TRUE, bid |-> bid, ask |-> ask, symbol |-> symbol]
\* an optional string: a missing symbol or order id is None
NoString == [has |-> FALSE, v |-> ""]
NoLeg == [present |-> FALSE, bid |-> None, ask |-> None, symbol |-> NoString]

\* quote.get("bid") or quote.get("bid_price"), with no bid_price key: a
\* zero or missing bid is None
truthy_price(x) == IF x.has /\ x.v # RZero THEN x ELSE None

\* the first gate of _build_intent, altered: the direction test alone
signal_gate_direction_only(sig, cfg) ==
    ~(sig.direction = "NONE")

\* the first gate of _build_intent (line 114): TRUE when the signal passes
signal_gate(sig, cfg) ==
    ~(sig.direction = "NONE" \/ RLt(sig.confidence, cfg.min_confidence))

\* AutoTrader._infer_entry_price
at_infer_entry_price(sig, ctx) ==
    IF sig.entry_price.has /\ sig.entry_price.v # RZero THEN sig.entry_price
    ELSE LET oq == ctx.option_quote
             quote == IF oq.sided THEN directional_quote(oq, sig.direction)
                      ELSE oq.flat
             bid == truthy_price(quote.bid)
             ask == truthy_price(quote.ask)
         IN  IF oq.sided /\ ~quote.present THEN None
             ELSE IF ~bid.has /\ ~ask.has THEN None
             ELSE IF ~bid.has THEN ask
             ELSE IF ~ask.has THEN bid
             ELSE Some(RDiv(RAdd(bid.v, ask.v), RInt(2)))

\* AutoTrader._option_symbol, with no capitalized ("Call", "Put") key
option_symbol(ctx, direction) ==
    IF ctx.option_quote[direction].present THEN ctx.option_quote[direction].symbol
    ELSE NoString

\* series[start:] as Python slices it, start possibly negative
SliceFrom(series, start) ==
    LET n == Len(series)
        first == IF start < 0 THEN IMax(0, n + start) ELSE IMin(start, n)
    IN  SubSeq(series, first + 1, n)

RECURSIVE VolumeSum(_)
\* volume += float(bar.get("volume") or 0.0) over the bars
VolumeSum(bars) ==
    IF bars = <<>> THEN RZero
    ELSE RAdd(IF Head(bars).volume.has THEN Head(bars).volume.v ELSE RZero,
              VolumeSum(Tail(bars)))

\* AutoTrader._aggregate_health: the slice starts at
\* (-min_option_agg_bars or len(series))
aggregate_health(ctx, direction, cfg) ==
    LET series == ctx.option_aggregates[direction]
        start == IF cfg.min_option_agg_bars # 0 THEN -cfg.min_option_agg_bars
                 ELSE Len(series)
    IN  [bars |-> Len(series), volume |-> VolumeSum(SliceFrom(series, start))]

\* the vwaps of a series that are not None
Vwaps(series) == Collect(series, "vwap")

\* AutoTrader._aggregate_vwap_trend
aggregate_vwap_trend(ctx, direction) ==
    LET series == ctx.option_aggregates[direction]
        vwaps == Vwaps(series)
    IN  IF Len(series) < 2 \/ Len(vwaps) < 2 THEN RZero
        ELSE IF vwaps[1] = RZero THEN RZero
        ELSE RDiv(RSub(vwaps[Len(vwaps)], vwaps[1]), vwaps[1])

\* the liquidity gate of _build_intent (lines 134-138): TRUE when it rejects
liquidity_rejects(agg_stats, agg_vwap, cfg) ==
    \/ agg_stats.bars < cfg.min_option_agg_bars
    \/ RLt(agg_stats.volume, cfg.min_option_agg_volume)
    \/ RLt(RAbs(agg_vwap), cfg.min_option_agg_vwap)

\* AutoTrader._build_intent on the signal the strategy returned for the
\* context: the gate that rejected it, or the TradeIntent
build_intent(ticker, sig, ctx, cfg, mdl, minc) ==
    IF ~signal_gate(sig, cfg) THEN [gate |-> "signal", intent |-> <<>>]
    ELSE LET entry == at_infer_entry_price(sig, ctx)
         IN  IF ~entry.has \/ RLe(entry.v, RZero)
             THEN [gate |-> "price", intent |-> <<>>]
             ELSE LET size == size_position(
                                 [account_equity |-> cfg.account_equity,
                                  trade_risk_fraction |-> cfg.trade_risk_fraction,
                                  contract_price |-> entry.v,
                                  confidence |-> sig.confidence,
                                  max_positions |-> cfg.max_positions],
                                 mdl, minc).value
                      agg_stats == aggregate_health(ctx, sig.direction, cfg)
                      agg_vwap == aggregate_vwap_trend(ctx, sig.direction)
                  IN  IF size <= 0 THEN [gate |-> "size", intent |-> <<>>]
                      ELSE IF liquidity_rejects(agg_stats, agg_vwap, cfg)
                      THEN [gate |-> "liquidity", intent |-> <<>>]
                      ELSE [gate |-> "intent",
                            intent |-> <<[ticker |-> ticker,
                                          option_symbol |-> option_symbol(ctx, sig.direction),
                                          direction |-> sig.direction,
                                          quantity |-> size,
                                          entry_price |-> entry.v,
                                          confidence |-> sig.confidence,
                                          option_agg_bars |-> agg_stats.bars,
                                          option_agg_volume |-> agg_stats.volume,
                                          option_agg_vwap |-> agg_vwap]>>]

\* _execute_intent, altered: the dry_run test is skipped
execute_route_always_live(intent, cfg) ==
    IF ~intent.option_symbol.has \/ intent.option_symbol.v = "" THEN "MISSING_SYMBOL"
    ELSE "SUBMIT"

\* the branch _execute_intent takes (lines 164, 175): the status it returns
\* without an order, or "SUBMIT" when it calls submit_option_order
execute_route(intent, cfg) ==
    IF cfg.dry_run THEN "DRY_RUN"
    ELSE IF ~intent.option_symbol.has \/ intent.option_symbol.v = "" THEN "MISSING_SYMBOL"
    ELSE "SUBMIT"

\* the result dict of _execute_intent; order_id is None or the order's id
ExecutionResult(status, order_id) == [status |-> status, order_id |-> order_id]

\* the entry of _record_intent, altered: the status is not the result's
audit_entry_fixed_status(intent, result) ==
    [ticker |-> intent.ticker,
     option_symbol |-> intent.option_symbol,
     direction |-> intent.direction,
     quantity |-> intent.quantity,
     entry_price |-> intent.entry_price,
     confidence |-> intent.confidence,
     status |-> "DRY_RUN",
     order_id |-> result.order_id]

\* the entry _record_intent serialises as one line of the log (lines
\* 222-233), without its timestamp and metadata
audit_entry(intent, result) ==
    [ticker |-> intent.ticker,
     option_symbol |-> intent.option_symbol,
     direction |-> intent.direction,
     quantity |-> intent.quantity,
     entry_price |-> intent.entry_price,
     confidence |-> intent.confidence,
     status |-> result.status,
     order_id |-> result.order_id]

----------------------------------------------------------------------------
(* AutoTrader.run_once                                                     *)

MaxTickers == 2    \* most tickers of a snapshot

\* option_quote of a context: as BtOptionQuote, the legs carrying a symbol
AtQuotedBoth ==
    BtOptionQuote(TRUE, AtLeg(Some(ROne), Some(R(12, 10)), Some("AAPL-C")),
                  AtLeg(Some(R(9, 10)), Some(ROne), Some("AAPL-P")), NoLeg)

AtQuoteInputs ==
    {AtQuotedBoth,
     \* the PUT leg only
     BtOptionQuote(TRUE, NoLeg, AtLeg(Some(R(9, 10)), Some(ROne), Some("AAPL-P")), NoLeg),
     \* a CALL leg without a symbol, and one with an empty symbol
     BtOptionQuote(TRUE, AtLeg(Some(ROne), Some(R(12, 10)), NoString), NoLeg, NoLeg),
     BtOptionQuote(TRUE, AtLeg(Some(ROne), Some(R(12, 10)), Some("")), NoLeg, NoLeg),
     \* no quote at all, and a flat quote with a bid only
     BtOptionQuote(FALSE, NoLeg, NoLeg, NoLeg),
     BtOptionQuote(FALSE, NoLeg, NoLeg, AtLeg(Some(ROne), None, NoString))}

\* a context as _build_intent reads it
AtContext(option_quote, option_aggregates) ==
    [option_quote |-> option_quote, option_aggregates |-> option_aggregates]

\* a signal as _build_intent reads it
AtSignal(direction, confidence, entry_price) ==
    [direction |-> direction, confidence |-> confidence, entry_price |-> entry_price]

AtItem(sig, ctx) == [signal |-> sig, context |-> ctx]

\* the signals of a cycle with the contexts the loader builds for them:
\* contexts_from_snapshot passes no option_aggregates, so the series are
\* empty; the quotes are varied on signals that reach the price gate
AtItems ==
    {item \in {AtItem(AtSignal(d, c, e), AtContext(q, NoAggregates)) :
                  d \in {"CALL", "PUT", "NONE"},
                  c \in {Pct(4), Pct(25), Pct(81)},
                  e \in {None, Some(RInt(-1)), Some(RInt(1000))},
                  q \in AtQuoteInputs} :
        /\ (item.signal.direction = "NONE" \/ item.signal.confidence # Pct(81))
            => (item.context.option_quote = AtQuotedBoth /\ ~item.signal.entry_price.has)
        /\ item.signal.entry_price.has => item.context.option_quote = AtQuotedBoth}

AtConfigInputs ==
    {DefaultAutoTraderConfig,
     [DefaultAutoTraderConfig EXCEPT !.dry_run = FALSE],
     [DefaultAutoTraderConfig EXCEPT !.dry_run = FALSE, !.max_positions = 2,
                                     !.account_equity = RInt(1000),
                                     !.min_confidence = RZero],
     [DefaultAutoTraderConfig EXCEPT !.dry_run = FALSE, !.min_option_agg_bars = 1]}

\* a line written to the log by an earlier cycle
EarlierLine ==
    audit_entry([ticker |-> 0, option_symbol |-> NoString, direction |-> "CALL",
                 quantity |-> 1, entry_price |-> ROne, confidence |-> ROne],
                ExecutionResult("DRY_RUN", NoString))

NoAtItem ==
    AtItem(AtSignal("NONE", RZero, None),
           AtContext(BtOptionQuote(FALSE, NoLeg, NoLeg, NoLeg), NoAggregates))

AutoTraderIdle ==
    /\ at_pc = "idle"
    /\ at_config = DefaultAutoTraderConfig
    /\ context_cls = "base"
    /\ at_total = 0
    /\ at_processed = 0
    /\ at_item = NoAtItem
    /\ at_gate = "none"
    /\ intents = <<>>
    /\ at_result = ExecutionResult("none", NoString)
    /\ alpaca_calls = <<>>
    /\ audit_log = <<>>
    /\ at_error = "none"

\* context_cls is "base" for the StrategyContext of strategies/base.py, whose
\* constructor rejects the option_metrics argument of data_loader.py:36-44,
\* and "loader" for a StrategyContext that accepts the loader's arguments
AutoTraderInit ==
    /\ at_pc = "start"
    /\ at_config \in AtConfigInputs
    /\ context_cls \in {"base", "loader"}
    /\ at_total = 0
    /\ at_processed = 0
    /\ at_item = NoAtItem
    /\ at_gate = "none"
    /\ intents = <<>>
    /\ at_result = ExecutionResult("none", NoString)
    /\ alpaca_calls = <<>>
    /\ audit_log \in {<<>>, <<EarlierLine>>}
    /\ at_error = "none"

\* run_once, lines 87-95: the snapshot of n tickers and its contexts
CollectContexts ==
    /\ at_pc = "start"
    /\ \E n \in 0..MaxTickers :
          IF n > 0 /\ context_cls = "base"
          THEN /\ at_pc' = "raised"
               /\ at_error' = "TypeError"
               /\ UNCHANGED at_total
          ELSE /\ at_pc' = "build"
               /\ at_total' = n
               /\ UNCHANGED at_error
    /\ UNCHANGED <<at_config, context_cls, at_processed, at_item, at_gate, intents,
                   at_result, alpaca_calls, audit_log>>

\* run_once, lines 96-99: _build_intent on the next context
BuildIntent ==
    /\ at_pc = "build"
    /\ at_processed < at_total
    /\ \E item \in AtItems :
          \E r \in {build_intent(at_processed + 1, item.signal, item.context, at_config,
                                 max_daily_loss_pct, min_confidence)} :
              /\ at_item' = item
              /\ at_gate' = r.gate
              /\ intents' = intents \o r.intent
              /\ IF r.intent = <<>>
                 THEN at_processed' = at_processed + 1 /\ at_pc' = "build"
                 ELSE at_processed' = at_processed /\ at_pc' = "execute"
    /\ UNCHANGED <<at_config, context_cls, at_total, at_result, alpaca_calls,
                   audit_log, at_error>>

\* run_once, line 100: _execute_intent on the intent just appended; the
\* client's submit_option_order returns an order id or raises
ExecuteIntent ==
    /\ at_pc = "execute"
    /\ LET intent == intents[Len(intents)]
           route == execute_route(intent, at_config)
       IN  IF route # "SUBMIT"
           THEN /\ at_result' = ExecutionResult(route, NoString)
                /\ at_pc' = "record"
                /\ UNCHANGED <<alpaca_calls, at_error>>
           ELSE /\ alpaca_calls' = Append(alpaca_calls,
                                          [symbol |-> intent.option_symbol.v,
                                           quantity |-> intent.quantity])
                /\ \E raises \in BOOLEAN :
                      IF raises
                      THEN /\ at_pc' = "raised"
                           /\ at_error' = "submit"
                           /\ UNCHANGED at_result
                      ELSE /\ at_pc' = "record"
                           /\ at_result' = ExecutionResult("SUBMITTED", Some("order-id"))
                           /\ UNCHANGED at_error
    /\ UNCHANGED <<at_config, context_cls, at_total, at_processed, at_item, at_gate,
                   intents, audit_log>>

\* run_once, line 101: _record_intent appends one line to the log
RecordIntent ==
    /\ at_pc = "record"
    /\ audit_log' = Append(audit_log, audit_entry(intents[Len(intents)], at_result))
    /\ at_processed' = at_processed + 1
    /\ at_pc' = "build"
    /\ UNCHANGED <<at_config, context_cls, at_total, at_item, at_gate, intents,
                   at_result, alpaca_calls, at_error>>

\* run_once, lines 102-103: the loop is exhausted, intents is returned
ReturnIntents ==
    /\ at_pc = "build"
    /\ at_processed = at_total
    /\ at_pc' = "done"
    /\ UNCHANGED <<at_config, context_cls, at_total, at_processed, at_item, at_gate,
                   intents, at_result, alpaca_calls, audit_log, at_error>>

----------------------------------------------------------------------------
(* BacktestRunner._max_drawdown on its own                                 *)

MaxPoints == 3    \* most points of an equity curve

\* equity values: a loss below zero, zero, and three positive levels
CurveValues == {RInt(-100), RZero, RInt(50), RInt(100), RInt(200)}

DrawdownIdle ==
    /\ md_pc = "idle"
    /\ md_equity = <<>>
    /\ md_result = DNum(RZero)

DrawdownInit ==
    /\ md_pc = "call"
    /\ md_equity \in SeqUpTo(CurveValues, MaxPoints)
    /\ md_result = DNum(RZero)

MaxDrawdown ==
    /\ md_pc = "call"
    /\ md_result' = max_drawdown(md_equity)
    /\ md_pc' = "done"
    /\ UNCHANGED md_equity

----------------------------------------------------------------------------
(* RiskManager.stop_loss_price and take_profit_price                       *)

\* entry prices: negative, zero, below, at and above one cent
LevelEntryInputs ==
    {RInt(-1), RZero, R(1, 200), R(1, 100), R(1, 50), RInt(5), RInt(100)}

\* risk fractions: outside, on the ends of, and inside (0, 1)
LevelFractionInputs ==
    {R(-1, 5), RZero, R(1, 100), R(1, 5), R(1, 2), R(99, 100), ROne, R(3, 2)}

LevelRewardInputs == {DefaultRewardMultiplier, RZero, RInt(-1), R(1, 2)}

LevelsIdle ==
    /\ lv_entry_price = RZero
    /\ lv_risk_fraction = RZero
    /\ lv_reward_multiplier = DefaultRewardMultiplier
    /\ lv_stop = None
    /\ lv_limit = None

LevelsInit ==
    /\ lv_entry_price \in LevelEntryInputs
    /\ lv_risk_fraction \in LevelFractionInputs
    /\ lv_reward_multiplier \in LevelRewardInputs
    /\ lv_stop = None
    /\ lv_limit = None

StopLossPrice ==
    /\ ~lv_stop.has
    /\ lv_stop' = Some(stop_loss_price(lv_entry_price, lv_risk_fraction))
    /\ UNCHANGED <<lv_entry_price, lv_risk_fraction, lv_reward_multiplier, lv_limit>>

TakeProfitPrice ==
    /\ ~lv_limit.has
    /\ lv_limit' = Some(take_profit_price(lv_entry_price, lv_reward_multiplier,
                                          lv_risk_fraction))
    /\ UNCHANGED <<lv_entry_price, lv_risk_fraction, lv_reward_multiplier, lv_stop>>

----------------------------------------------------------------------------
(* AutoTrader._build_intent on contexts that carry option aggregates       *)

MaxBars == 2    \* most bars of an option-aggregate series

\* a bar of an aggregate series: its volume and vwap entries
AggBar(volume, vwap) == [volume |-> volume, vwap |-> vwap]

AggBarInputs ==
    {AggBar(Some(RInt(100)), Some(ROne)),
     AggBar(Some(RInt(100)), Some(R(11, 10))),
     AggBar(Some(RInt(50)), None),
     AggBar(None, Some(ROne))}

RECURSIVE SeriesUpTo(_)
\* the series of at most n bars
SeriesUpTo(n) ==
    IF n = 0 THEN {<<>>}
    ELSE SeriesUpTo(n - 1)
         \cup {Append(series, bar) : series \in {x \in SeriesUpTo(n - 1) : Len(x) = n - 1},
                                     bar \in AggBarInputs}

\* a sized CALL or PUT signal on a fully quoted context whose series for the
\* signal direction varies; the other direction's series is empty
LiquidityItems ==
    {AtItem(AtSignal("CALL", Pct(81), None),
            AtContext(AtQuotedBoth, Aggregates(series, <<>>))) : series \in SeriesUpTo(MaxBars)}
    \cup {AtItem(AtSignal("PUT", Pct(81), None),
                 AtContext(AtQuotedBoth, Aggregates(<<>>, series))) : series \in SeriesUpTo(MaxBars)}

\* the three minimums, each off (0) and on
LiquidityConfigInputs ==
    {[DefaultAutoTraderConfig EXCEPT !.min_option_agg_bars = b,
                                     !.min_option_agg_volume = v,
                                     !.min_option_agg_vwap = w] :
        b \in {0, 1, 2}, v \in {RZero, ROne, RInt(150)}, w \in {RZero, Pct(5)}}

NoBuildResult == [gate |-> "none", intent |-> <<>>]

LiquidityIdle ==
    /\ lq_config = DefaultAutoTraderConfig
    /\ lq_item = NoAtItem
    /\ lq_result = NoBuildResult

LiquidityInit ==
    /\ lq_config \in LiquidityConfigInputs
    /\ lq_item \in LiquidityItems
    /\ lq_result = NoBuildResult

\* one call of _build_intent
BuildIntentCall ==
    /\ lq_result = NoBuildResult
    /\ lq_result' = build_intent(1, lq_item.signal, lq_item.context, lq_config,
                                 max_daily_loss_pct, min_confidence)
    /\ UNCHANGED <<lq_config, lq_item>>

----------------------------------------------------------------------------
(* MarketDataCollector.collect_market_snapshot                             *)

\* what a provider call does: raises APIClientError, or returns a payload
\* that is empty or holds data
ProviderOutcomes == {"fail", "empty", "data"}

\* collect_underlying_bars: the frame it returns and whether a provider
\* raised on the way.  Every provider call sits in a try block.
collect_underlying_bars(use_polygon_bars, cached, polygon, alpaca, latest_trade) ==
    IF cached THEN [frame |-> "bars", failed |-> FALSE]
    ELSE LET first == IF use_polygon_bars /\ polygon = "data" THEN "bars" ELSE "empty"
             second == IF first = "empty" /\ alpaca = "data" THEN "bars" ELSE first
             third == IF second = "empty" /\ ~use_polygon_bars /\ polygon = "data"
                      THEN "bars" ELSE second
             fourth == IF third = "empty" /\ latest_trade = "data" THEN "bars" ELSE third
         IN  [frame |-> fourth,
              failed |-> \/ use_polygon_bars /\ polygon = "fail"
                         \/ first = "empty" /\ alpaca = "fail"
                         \/ second = "empty" /\ ~use_polygon_bars /\ polygon = "fail"
                         \/ third = "empty" /\ latest_trade = "fail"]

\* collect_option_chain: the cached chain, or the chain fetched from Alpaca;
\* the fetch is not in a try block
collect_option_chain(cached, alpaca) ==
    IF cached THEN [raised |-> FALSE, chain |-> "chain"]
    ELSE IF alpaca = "fail" THEN [raised |-> TRUE, chain |-> "none"]
    ELSE [raised |-> FALSE, chain |-> IF alpaca = "data" THEN "chain" ELSE "none"]

\* collect_news with NewsAggregator.gather over one provider: a provider that
\* raises is skipped
collect_news(news_enabled, cached, provider) ==
    IF ~news_enabled THEN [stories |-> "none", failed |-> FALSE]
    ELSE IF cached THEN [stories |-> "stories", failed |-> FALSE]
    ELSE [stories |-> IF provider = "data" THEN "stories" ELSE "none",
          failed |-> provider = "fail"]

\* use_polygon_bars and enable_news of the settings (enable_news with at least
\* one provider), use_cache and include_news of the call
CollectorSettingsInputs ==
    [use_polygon_bars : BOOLEAN, news_enabled : BOOLEAN, use_cache : BOOLEAN,
     include_news : BOOLEAN]

CollectorIdle ==
    /\ mc_pc = "idle"
    /\ mc_settings = [use_polygon_bars |-> FALSE, news_enabled |-> FALSE,
                      use_cache |-> FALSE, include_news |-> FALSE]
    /\ mc_total = 0
    /\ snapshot = <<>>
    /\ mc_failures = <<>>

CollectorInit ==
    /\ mc_pc = "loop"
    /\ mc_settings \in CollectorSettingsInputs
    /\ mc_total \in 0..MaxTickers
    /\ snapshot = <<>>
    /\ mc_failures = <<>>

\* one iteration of the for loop (lines 306-330) on the next ticker
CollectTicker ==
    /\ mc_pc = "loop"
    /\ Len(mc_failures) < mc_total
    /\ \E bars_cached, chain_cached, news_cached \in {FALSE, mc_settings.use_cache},
          polygon, alpaca_bars, latest_trade, alpaca_chain, provider \in ProviderOutcomes :
          \E bars \in {collect_underlying_bars(mc_settings.use_polygon_bars, bars_cached,
                                               polygon, alpaca_bars, latest_trade)},
             chain \in {collect_option_chain(chain_cached, alpaca_chain)},
             news \in {IF mc_settings.include_news
                       THEN collect_news(mc_settings.news_enabled, news_cached, provider)
                       ELSE [stories |-> "none", failed |-> FALSE]} :
              IF chain.raised
              THEN /\ mc_pc' = "raised"
                   /\ mc_failures' = Append(mc_failures,
                                            (IF bars.failed THEN {"bars"} ELSE {})
                                            \cup {"chain"})
                   /\ UNCHANGED snapshot
              ELSE /\ mc_pc' = "loop"
                   /\ mc_failures' = Append(mc_failures,
                                            (IF bars.failed THEN {"bars"} ELSE {})
                                            \cup (IF news.failed THEN {"news"} ELSE {}))
                   /\ snapshot' = Append(snapshot,
                                         [ticker |-> Len(mc_failures) + 1,
                                          underlying_bars |-> bars.frame,
                                          option_chain |-> chain.chain,
                                          news |-> news.stories])
    /\ UNCHANGED <<mc_settings, mc_total>>

\* line 331: the loop is exhausted, snapshot is returned
ReturnSnapshot ==
    /\ mc_pc = "loop"
    /\ Len(mc_failures) = mc_total
    /\ mc_pc' = "done"
    /\ UNCHANGED <<mc_settings, mc_total, snapshot, mc_failures>>

----------------------------------------------------------------------------
(* AutoTrader.run_loop                                                     *)

MaxCycles == 2    \* most cycles of run_loop followed

\* time.sleep's argument, altered: sleep_seconds as configured
sleep_duration_raw(cfg) ==
    cfg.sleep_seconds

\* time.sleep's argument: max(1, self.config.sleep_seconds)
sleep_duration(cfg) ==
    IMax(1, cfg.sleep_seconds)

\* the signals of a looped cycle: one that is submitted, one rejected at the
\* signal gate, one whose quote carries no symbol
LoopItems ==
    {AtItem(AtSignal("CALL", Pct(81), None), AtContext(AtQuotedBoth, NoAggregates)),
     AtItem(AtSignal("NONE", Pct(81), None), AtContext(AtQuotedBoth, NoAggregates)),
     AtItem(AtSignal("CALL", Pct(81), None),
            AtContext(BtOptionQuote(TRUE, AtLeg(Some(ROne), Some(R(12, 10)), NoString),
                                    NoLeg, NoLeg),
                      NoAggregates))}

LoopConfigInputs ==
    {[DefaultAutoTraderConfig EXCEPT !.dry_run = d, !.sleep_seconds = sec] :
        d \in BOOLEAN, sec \in {-5, 0, 1, 60}}

CycleMark == [calls |-> Len(alpaca_calls), log |-> Len(audit_log)]

RunLoopIdle ==
    /\ rl_cycles = 0
    /\ rl_sleeps = <<>>
    /\ rl_mark = [calls |-> 0, log |-> 0]

RunLoopInit ==
    /\ at_pc = "start"
    /\ at_config \in LoopConfigInputs
    /\ context_cls \in {"base", "loader"}
    /\ at_total = 0
    /\ at_processed = 0
    /\ at_item = NoAtItem
    /\ at_gate = "none"
    /\ intents = <<>>
    /\ at_result = ExecutionResult("none", NoString)
    /\ alpaca_calls = <<>>
    /\ audit_log = <<>>
    /\ at_error = "none"
    /\ rl_cycles = 0
    /\ rl_sleeps = <<>>
    /\ rl_mark = [calls |-> 0, log |-> 0]

\* run_once, lines 87-95, inside run_loop: collect_market_snapshot raises, or
\* returns a snapshot of no or one ticker
LoopCollect ==
    /\ at_pc = "start"
    /\ rl_cycles < MaxCycles
    /\ \E outcome \in {"raise", "empty", "one"} :
          IF outcome = "raise"
          THEN /\ at_pc' = "raised"
               /\ at_error' = "collect"
               /\ UNCHANGED at_total
          ELSE IF outcome = "one" /\ context_cls = "base"
          THEN /\ at_pc' = "raised"
               /\ at_error' = "TypeError"
               /\ UNCHANGED at_total
          ELSE /\ at_pc' = "build"
               /\ at_total' = IF outcome = "one" THEN 1 ELSE 0
               /\ UNCHANGED at_error
    /\ UNCHANGED <<at_config, context_cls, at_processed, at_item, at_gate, intents,
                   at_result, alpaca_calls, audit_log>>

\* run_once, lines 96-99, inside run_loop
LoopBuild ==
    /\ at_pc = "build"
    /\ at_processed < at_total
    /\ \E item \in LoopItems :
          \E r \in {build_intent(at_processed + 1, item.signal, item.context, at_config,
                                 max_daily_loss_pct, min_confidence)} :
              /\ at_item' = item
              /\ at_gate' = r.gate
              /\ intents' = intents \o r.intent
              /\ IF r.intent = <<>>
                 THEN at_processed' = at_processed + 1 /\ at_pc' = "build"
                 ELSE at_processed' = at_processed /\ at_pc' = "execute"
    /\ UNCHANGED <<at_config, context_cls, at_total, at_result, alpaca_calls,
                   audit_log, at_error>>

\* run_loop, line 110: run_once has returned; sleep, then the next run_once
\* starts with fresh locals
Sleep ==
    /\ at_pc = "done"
    /\ rl_sleeps' = Append(rl_sleeps, sleep_duration(at_config))
    /\ rl_cycles' = rl_cycles + 1
    /\ rl_mark' = CycleMark
    /\ at_pc' = "start"
    /\ at_total' = 0
    /\ at_processed' = 0
    /\ at_item' = NoAtItem
    /\ at_gate' = "none"
    /\ intents' = <<>>
    /\ at_result' = ExecutionResult("none", NoString)
    /\ UNCHANGED <<at_config, context_cls, alpaca_calls, audit_log, at_error>>

----------------------------------------------------------------------------
(* BacktestRunner._simulate_exit_price on its own                          *)

\* closes: none, small and large moves either way, a zero first close
ExitBarInputs == {<<>>, UpBars, <<100, 94>>, <<100, 80>>, <<100, 130>>, <<0, 5>>}

\* delta hints: defaults, inside the clamp, below and above it, a zero delta
\* with a delta_bias
ExitMetadataInputs ==
    BtMetadataInputs \cup {Metadata(Some(R(-9, 10)), None), Metadata(None, Some(R(1, 100)))}

ExitSignalInputs ==
    {BtSignal(d, c, None, t, md) :
        d \in {"CALL", "PUT", "NONE"}, c \in {Pct(4), Pct(81)},
        t \in {None, Some(RZero), Some(RInt(3))}, md \in ExitMetadataInputs}

ExitPriceIdle ==
    /\ xp_signal = NoItem.signal
    /\ xp_context = NoItem.context
    /\ xp_entry = ROne
    /\ xp_exit = None

ExitPriceInit ==
    /\ xp_signal \in ExitSignalInputs
    /\ xp_context \in {BtContext(BothQuotes, b, NoAggregates) : b \in ExitBarInputs}
    /\ xp_entry \in {R(15, 10), R(6, 10)}
    /\ xp_exit = None

SimulateExitPrice ==
    /\ ~xp_exit.has
    /\ xp_exit' = Some(simulate_exit_price(xp_signal, xp_context, xp_entry))
    /\ UNCHANGED <<xp_signal, xp_context, xp_entry>>

----------------------------------------------------------------------------
(* Specifications                                                          *)

RiskNext == SizePosition /\ UNCHANGED <<st_vars, bt_vars, md_vars, lv_vars, at_vars, lq_vars, mc_vars, rl_vars, xp_vars>>

InitRisk == RiskInit /\ StrategyIdle /\ BacktestIdle /\ DrawdownIdle /\ LevelsIdle
        /\ AutoTraderIdle /\ LiquidityIdle /\ CollectorIdle /\ RunLoopIdle /\ ExitPriceIdle

SpecRisk == InitRisk /\ [][RiskNext]_vars

StrategyNext == GenerateSignal /\ UNCHANGED <<rm_vars, bt_vars, md_vars, lv_vars, at_vars, lq_vars, mc_vars, rl_vars, xp_vars>>

InitStrategy ==
    RiskIdle /\ StrategyInit /\ BacktestIdle /\ DrawdownIdle /\ LevelsIdle
        /\ AutoTraderIdle /\ LiquidityIdle /\ CollectorIdle /\ RunLoopIdle /\ ExitPriceIdle

SpecStrategy == InitStrategy /\ [][StrategyNext]_vars

BacktestNext ==
    \/ RunIteration /\ UNCHANGED <<rm_vars, st_vars, md_vars, lv_vars, at_vars, lq_vars, mc_vars, rl_vars, xp_vars>>
    \/ RunReturn /\ UNCHANGED <<rm_vars, st_vars, md_vars, lv_vars, at_vars, lq_vars, mc_vars, rl_vars, xp_vars>>

InitBacktest ==
    RiskIdle /\ StrategyIdle /\ BacktestInit /\ DrawdownIdle /\ LevelsIdle
        /\ AutoTraderIdle /\ LiquidityIdle /\ CollectorIdle /\ RunLoopIdle /\ ExitPriceIdle

SpecBacktest == InitBacktest /\ [][BacktestNext]_vars

InitSmallAccount ==
    RiskIdle /\ StrategyIdle /\ SmallAccountInit /\ DrawdownIdle /\ LevelsIdle
        /\ AutoTraderIdle /\ LiquidityIdle /\ CollectorIdle /\ RunLoopIdle /\ ExitPriceIdle

SpecSmallAccount == InitSmallAccount /\ [][BacktestNext]_vars

DrawdownNext == MaxDrawdown /\ UNCHANGED <<rm_vars, st_vars, bt_vars, lv_vars, at_vars, lq_vars, mc_vars, rl_vars, xp_vars>>

InitDrawdown ==
    RiskIdle /\ StrategyIdle /\ BacktestIdle /\ DrawdownInit /\ LevelsIdle
        /\ AutoTraderIdle /\ LiquidityIdle /\ CollectorIdle /\ RunLoopIdle /\ ExitPriceIdle

SpecDrawdown == InitDrawdown /\ [][DrawdownNext]_vars

LevelsNext ==
    \/ StopLossPrice /\ UNCHANGED <<rm_vars, st_vars, bt_vars, md_vars, at_vars, lq_vars, mc_vars, rl_vars, xp_vars>>
    \/ TakeProfitPrice /\ UNCHANGED <<rm_vars, st_vars, bt_vars, md_vars, at_vars, lq_vars, mc_vars, rl_vars, xp_vars>>

InitLevels ==
    RiskIdle /\ StrategyIdle /\ BacktestIdle /\ DrawdownIdle /\ LevelsInit
        /\ AutoTraderIdle /\ LiquidityIdle /\ CollectorIdle /\ RunLoopIdle /\ ExitPriceIdle

SpecLevels == InitLevels /\ [][LevelsNext]_vars

AutoTraderNext ==
    \/ CollectContexts /\ UNCHANGED <<rm_vars, st_vars, bt_vars, md_vars, lv_vars, lq_vars, mc_vars, rl_vars, xp_vars>>
    \/ BuildIntent /\ UNCHANGED <<rm_vars, st_vars, bt_vars, md_vars, lv_vars, lq_vars, mc_vars, rl_vars, xp_vars>>
    \/ ExecuteIntent /\ UNCHANGED <<rm_vars, st_vars, bt_vars, md_vars, lv_vars, lq_vars, mc_vars, rl_vars, xp_vars>>
    \/ RecordIntent /\ UNCHANGED <<rm_vars, st_vars, bt_vars, md_vars, lv_vars, lq_vars, mc_vars, rl_vars, xp_vars>>
    \/ ReturnIntents /\ UNCHANGED <<rm_vars, st_vars, bt_vars, md_vars, lv_vars, lq_vars, mc_vars, rl_vars, xp_vars>>

InitAutoTrader ==
    RiskIdle /\ StrategyIdle /\ BacktestIdle /\ DrawdownIdle /\ LevelsIdle
        /\ AutoTraderInit /\ LiquidityIdle /\ CollectorIdle /\ RunLoopIdle /\ ExitPriceIdle

SpecAutoTrader == InitAutoTrader /\ [][AutoTraderNext]_vars

BuildIntentNext ==
    BuildIntentCall
        /\ UNCHANGED <<rm_vars, st_vars, bt_vars, md_vars, lv_vars, at_vars, mc_vars, rl_vars, xp_vars>>

InitBuildIntent ==
    RiskIdle /\ StrategyIdle /\ BacktestIdle /\ DrawdownIdle /\ LevelsIdle
        /\ AutoTraderIdle /\ LiquidityInit /\ CollectorIdle /\ RunLoopIdle /\ ExitPriceIdle

SpecBuildIntent == InitBuildIntent /\ [][BuildIntentNext]_vars

CollectorNext ==
    \/ CollectTicker /\ UNCHANGED <<rm_vars, st_vars, bt_vars, md_vars, lv_vars, at_vars, lq_vars, rl_vars, xp_vars>>
    \/ ReturnSnapshot /\ UNCHANGED <<rm_vars, st_vars, bt_vars, md_vars, lv_vars, at_vars, lq_vars, rl_vars, xp_vars>>

InitCollector ==
    RiskIdle /\ StrategyIdle /\ BacktestIdle /\ DrawdownIdle /\ LevelsIdle
        /\ AutoTraderIdle /\ LiquidityIdle /\ CollectorInit /\ RunLoopIdle /\ ExitPriceIdle

SpecCollector == InitCollector /\ [][CollectorNext]_vars

RunLoopNext ==
    \/ LoopCollect /\ UNCHANGED <<rm_vars, st_vars, bt_vars, md_vars, lv_vars, lq_vars, mc_vars, rl_vars, xp_vars>>
    \/ LoopBuild /\ UNCHANGED <<rm_vars, st_vars, bt_vars, md_vars, lv_vars, lq_vars, mc_vars, rl_vars, xp_vars>>
    \/ ExecuteIntent /\ UNCHANGED <<rm_vars, st_vars, bt_vars, md_vars, lv_vars, lq_vars, mc_vars, rl_vars, xp_vars>>
    \/ RecordIntent /\ UNCHANGED <<rm_vars, st_vars, bt_vars, md_vars, lv_vars, lq_vars, mc_vars, rl_vars, xp_vars>>
    \/ ReturnIntents /\ UNCHANGED <<rm_vars, st_vars, bt_vars, md_vars, lv_vars, lq_vars, mc_vars, rl_vars, xp_vars>>
    \/ Sleep /\ UNCHANGED <<rm_vars, st_vars, bt_vars, md_vars, lv_vars, lq_vars, mc_vars, xp_vars>>

InitRunLoop ==
    RiskIdle /\ StrategyIdle /\ BacktestIdle /\ DrawdownIdle /\ LevelsIdle
        /\ LiquidityIdle /\ CollectorIdle /\ RunLoopInit /\ ExitPriceIdle

SpecRunLoop == InitRunLoop /\ [][RunLoopNext]_vars

ExitPriceNext ==
    SimulateExitPrice
        /\ UNCHANGED <<rm_vars, st_vars, bt_vars, md_vars, lv_vars, at_vars, lq_vars, mc_vars,
                       rl_vars>>

InitExitPrice ==
    RiskIdle /\ StrategyIdle /\ BacktestIdle /\ DrawdownIdle /\ LevelsIdle
        /\ AutoTraderIdle /\ LiquidityIdle /\ CollectorIdle /\ RunLoopIdle
        /\ ExitPriceInit

SpecExitPrice == InitExitPrice /\ [][ExitPriceNext]_vars

----------------------------------------------------------------------------
(* Claims about RiskManager.size_position (SpecRisk)                       *)

RiskDone == rm_pc = "done"

\* C1: whenever confidence < min_confidence or contract_price <= 0,
\* size_position returns exactly 0 and does not raise, whatever the other
\* fields are.
C1_SizePositionFailsSafe ==
    (RiskDone /\ (RLt(params.confidence, min_confidence)
                    \/ RLe(params.contract_price, RZero)))
        => (~rm_result.raised /\ rm_result.value = 0)

\* a zero price with a confidence that passes the gate and a positive budget
C1_Witness ==
    /\ RiskDone
    /\ params.contract_price = RZero
    /\ RLe(min_confidence, params.confidence)
    /\ RLt(RZero, params.account_equity)
    /\ RLt(RZero, params.trade_risk_fraction)
    /\ params.max_positions > 0

NonNegativeParams ==
    /\ RLe(RZero, params.account_equity)
    /\ RLe(RZero, params.trade_risk_fraction)
    /\ RLe(RZero, params.contract_price)
    /\ RLe(RZero, params.confidence)
    /\ params.max_positions >= 0

\* k * contract_price <= account_equity * min(fraction, ceiling) * sqrt(confidence),
\* stated on the squares (both sides are non-negative)
FitsBudget(k) ==
    LET spend == RMul(RInt(k), params.contract_price)
        cap == RMul(params.account_equity,
                    IF RLt(max_daily_loss_pct, params.trade_risk_fraction)
                    THEN max_daily_loss_pct ELSE params.trade_risk_fraction)
    IN  RLe(RMul(spend, spend), RMul(RMul(cap, cap), params.confidence))

\* C2: with non-negative fields, confidence >= min_confidence and
\* contract_price > 0, the result q is floor(equity * min(fraction, ceiling)
\* * sqrt(confidence) / price) clamped to [0, max_positions]: 0 <= q <=
\* max_positions, q contracts fit the budget, and q + 1 do not unless q is
\* the cap.
C2_SizePositionFloorClamped ==
    (/\ RiskDone
     /\ NonNegativeParams
     /\ RLe(min_confidence, params.confidence)
     /\ RLt(RZero, params.contract_price))
        => /\ ~rm_result.raised
           /\ 0 <= rm_result.value
           /\ rm_result.value <= params.max_positions
           /\ FitsBudget(rm_result.value)
           /\ (rm_result.value < params.max_positions
                 => ~FitsBudget(rm_result.value + 1))

\* the floor, not the cap, decides a positive quantity
C2_Witness ==
    /\ RiskDone
    /\ NonNegativeParams
    /\ RLe(min_confidence, params.confidence)
    /\ RLt(RZero, params.contract_price)
    /\ rm_result.value = 2
    /\ params.max_positions = 3

----------------------------------------------------------------------------
(* Claims about MomentumIVStrategy.generate_signal (SpecStrategy)          *)

StrategyDone == st_pc = "done"
SignalReturned == StrategyDone /\ ~signal.raised

\* underlying_bars, option_chain, option_quote and news_items all empty, no
\* features and no option metrics
EmptyContext ==
    /\ context.underlying_bars = <<>>
    /\ context.option_chain = <<>>
    /\ context.option_quote = EmptyOptionQuote
    /\ context.news_items = <<>>
    /\ ~context.features.present
    /\ context.option_metrics = <<>>

\* C4: for every context whose underlying_bars, option_chain, option_quote
\* and news_items are all empty (no features, no metrics), generate_signal
\* raises no exception and returns direction NONE with confidence >=
\* baseline_confidence (for a baseline_confidence <= max_confidence).
C4_EmptyContextGivesNone ==
    (StrategyDone /\ EmptyContext
        /\ RLe(config.baseline_confidence, config.max_confidence))
        => /\ ~signal.raised
           /\ signal.direction = "NONE"
           /\ RLe(config.baseline_confidence, signal.confidence)

\* C5: the confidence of every returned signal lies in [0, max_confidence]
\* and, when baseline_confidence <= max_confidence, is never below
\* baseline_confidence.
C5_ConfidenceBounded ==
    SignalReturned
        => /\ RLe(RZero, signal.confidence)
           /\ RLe(signal.confidence, config.max_confidence)
           /\ (RLe(config.baseline_confidence, config.max_confidence)
                 => RLe(config.baseline_confidence, signal.confidence))

\* a confidence strictly between the floor and the cap
C5_Witness ==
    /\ SignalReturned
    /\ RLt(config.baseline_confidence, signal.confidence)
    /\ RLt(signal.confidence, config.max_confidence)
    /\ ~signal.iv_change.nan
    /\ context.news_items # <<>>

\* the bars give a momentum below the threshold in magnitude, the features
\* map has a numeric momentum_15 above it in magnitude, option_quote is absent
FeatureFallbackCase ==
    /\ RLt(RAbs(compute_momentum(context.underlying_bars, config)),
           config.momentum_threshold)
    /\ context.features.present
    /\ context.features.momentum_15.kind = "num"
    /\ RLt(config.momentum_threshold, RAbs(context.features.momentum_15.v))
    /\ context.option_quote = EmptyOptionQuote

\* C6: in the feature-fallback case the direction of the returned signal
\* is CALL when the features-map momentum_15 is positive and PUT when it is
\* negative, never NONE.
C6_FeatureFallbackDirection ==
    (SignalReturned /\ FeatureFallbackCase)
        => signal.direction =
             (IF RLt(RZero, context.features.momentum_15.v) THEN "CALL" ELSE "PUT")

\* a weak positive bar momentum overridden by a negative momentum_15
C6_Witness ==
    /\ SignalReturned
    /\ FeatureFallbackCase
    /\ context.underlying_bars = <<1000, 1001>>
    /\ RLt(context.features.momentum_15.v, RZero)
    /\ signal.direction = "PUT"

\* the contract type of a chain leg: its contract_type, else the type its
\* symbol encodes
LegType(leg) ==
    IF leg.contract_type # "" THEN Upper(leg.contract_type)
    ELSE infer_contract_type(leg.symbol)

\* the open interest of a leg, or its estimated liquidity (largest of the
\* quote sizes and the last trade size) when the open interest is missing
\* or negative
LegInterest(leg) ==
    IF leg.open_interest.has /\ RLe(RZero, leg.open_interest.v)
    THEN leg.open_interest.v
    ELSE RInt(IMax(IMax(leg.bid_size, leg.ask_size), leg.trade_size))

\* the weight the flow computation gives a leg: its interest when
\* positive, else |delta|
LegWeight(leg) ==
    IF RLt(RZero, LegInterest(leg)) THEN LegInterest(leg)
    ELSE IF leg.delta.has THEN RAbs(leg.delta.v) ELSE RZero

RECURSIVE SideInterest(_, _)
SideInterest(legs, side) ==
    IF legs = <<>> THEN RZero
    ELSE RAdd(IF LegType(Head(legs)) = side THEN LegInterest(Head(legs)) ELSE RZero,
              SideInterest(Tail(legs), side))

RECURSIVE SideWeight(_, _)
SideWeight(legs, side) ==
    IF legs = <<>> THEN RZero
    ELSE RAdd(IF LegType(Head(legs)) = side THEN LegWeight(Head(legs)) ELSE RZero,
              SideWeight(Tail(legs), side))

MomentumBelowThreshold == RLt(RAbs(signal.momentum), config.momentum_threshold)

\* C7 as stated: with empty option_metrics and chain legs whose call open
\* interest (or estimated liquidity) exceeds the put open interest,
\* flow_ratio > 0 and, when momentum is below threshold, the direction is
\* CALL.
C7_FlowFallbackAsStated ==
    (/\ SignalReturned
     /\ context.option_metrics = <<>>
     /\ RLt(SideInterest(context.option_chain, "PUT"),
            SideInterest(context.option_chain, "CALL")))
        => /\ RLt(RZero, signal.flow_ratio)
           /\ (MomentumBelowThreshold => signal.direction = "CALL")

\* the threshold _determine_direction applies: halved when iv_change is NaN
EffectiveThreshold ==
    IF signal.iv_change.nan THEN RMul(config.momentum_threshold, R(1, 2))
    ELSE config.momentum_threshold

\* the larger in magnitude of the reported flow_ratio and delta_bias
ReportedFlowBias ==
    IF RLt(RAbs(signal.flow_ratio), RAbs(signal.delta_bias))
    THEN signal.delta_bias ELSE signal.flow_ratio

\* C7 as amended: with empty option_metrics and chain legs whose total call
\* weight exceeds the total put weight (a leg weighs its open interest or
\* estimated liquidity when positive, else |delta|), flow_ratio > 0; and
\* when also the momentum does not exceed the effective threshold in
\* magnitude and the flow bias (the larger in magnitude of flow_ratio and
\* delta_bias) is at least option_flow_threshold, the direction is CALL.
C7_FlowFallbackAmended ==
    (/\ SignalReturned
     /\ context.option_metrics = <<>>
     /\ RLt(SideWeight(context.option_chain, "PUT"),
            SideWeight(context.option_chain, "CALL")))
        => /\ RLt(RZero, signal.flow_ratio)
           /\ (/\ RLe(RAbs(signal.momentum), EffectiveThreshold)
               /\ RLe(config.option_flow_threshold, ReportedFlowBias))
                 => signal.direction = "CALL"

\* calls and puts both in the chain, calls heavier, no momentum: CALL
C7_Witness ==
    /\ SignalReturned
    /\ context.option_metrics = <<>>
    /\ RLt(RZero, SideWeight(context.option_chain, "PUT"))
    /\ RLt(SideWeight(context.option_chain, "PUT"),
           SideWeight(context.option_chain, "CALL"))
    /\ signal.momentum = RZero
    /\ RLe(config.option_flow_threshold, ReportedFlowBias)
    /\ signal.direction = "CALL"

----------------------------------------------------------------------------
(* BacktestRunner.run                                                      *)

\* the context of the iteration that just ran
LastSignal == bt_item.signal
LastContext == bt_item.context
LastTrade == trades[Len(trades)]

\* the running equity before the iteration that just ran
EquityBefore ==
    IF Len(equity_points) >= 2 THEN equity_points[Len(equity_points) - 1]
    ELSE bt_config.starting_equity

\* the quantity the risk manager sizes for a signal at an entry price
SizedQuantity(sig, entry_price, eq) ==
    size_position([account_equity |-> eq,
                   trade_risk_fraction |-> bt_config.risk_fraction,
                   contract_price |-> entry_price,
                   confidence |-> sig.confidence,
                   max_positions |-> bt_config.max_positions],
                  max_daily_loss_pct, min_confidence).value

\* the four skip conditions, for a signal and context at a running equity
SkipCondition(sig, ctx, eq) ==
    \/ sig.direction = "NONE"
    \/ RLe(sig.confidence, RZero)
    \/ ~infer_entry_price(sig, ctx).has
    \/ SizedQuantity(sig, infer_entry_price(sig, ctx).v, eq) = 0

\* C8: each iteration of run either skips the context (running equity
\* unchanged, no TradeRecord appended) or appends exactly one TradeRecord,
\* and it skips exactly when the signal's direction is NONE, its confidence
\* is <= 0, no entry price can be resolved, or the sized quantity is 0.
C8_SkipExactlyWhen ==
    [][Len(equity_points') = Len(equity_points) + 1
        => LET skip == SkipCondition(bt_item'.signal, bt_item'.context, equity)
           IN  /\ skip <=> (equity' = equity /\ trades' = trades)
               /\ ~skip => (/\ Len(trades') = Len(trades) + 1
                            /\ SubSeq(trades', 1, Len(trades)) = trades)]_vars

\* a trade, then a context skipped only because its quantity sizes to 0
C8_Witness ==
    /\ Len(equity_points) = 2
    /\ Len(trades) = 1
    /\ bt_branch = "skip_size"
    /\ LastSignal.direction = "PUT"
    /\ RLt(RZero, LastSignal.confidence)
    /\ infer_entry_price(LastSignal, LastContext).has
    /\ equity = equity_points[1]

QuoteMidpoint(quote) == RDiv(RAdd(quote.bid.v, quote.ask.v), RInt(2))

NoExplicitEntry == ~(LastSignal.entry_price.has /\ LastSignal.entry_price.v # RZero)

\* the side whose quote prices the entry: the signal's own when present,
\* else whichever side is present
EntrySide ==
    IF LastContext.option_quote[LastSignal.direction].present
    THEN LastSignal.direction
    ELSE IF LastSignal.direction = "CALL" THEN "PUT" ELSE "CALL"

\* C9: a trade whose signal has no explicit entry price, on a context that
\* quotes at least one side, enters at the mid (bid + ask) / 2 of the quote
\* for the signal's own direction, or of the other side when the signal's
\* side is missing.
C9_DirectionalEntryPrice ==
    (/\ bt_branch = "trade"
     /\ NoExplicitEntry
     /\ (LastContext.option_quote.CALL.present \/ LastContext.option_quote.PUT.present))
        => LastTrade.entry_price = QuoteMidpoint(LastContext.option_quote[EntrySide])

\* the always-CALL run on CALL 1.0 / 2.0 and PUT 0.5 / 0.7 with the default
\* config: one trade at 1.5 and num_trades = 1
C9_Witness ==
    /\ bt_pc = "done"
    /\ bt_config = DefaultBacktestConfig
    /\ Len(equity_points) = 1
    /\ LastSignal.direction = "CALL"
    /\ ~LastSignal.entry_price.has
    /\ LastContext.option_quote = BothQuotes
    /\ Len(trades) = 1
    /\ trades[1].entry_price = R(3, 2)
    /\ stats.num_trades = 1

\* C10: the TradeRecord of a trade has pnl = (exit_price - entry_price) *
\* quantity, negated when the direction is PUT, minus commission_per_contract
\* * quantity * 2, and the running equity changes by exactly that pnl.
C10_TradePnl ==
    bt_branch = "trade"
        => LET t == LastTrade
               gross == RMul(RSub(t.exit_price, t.entry_price), RInt(t.quantity))
               signed == IF t.direction = "PUT" THEN RNeg(gross) ELSE gross
               commission == RMul(RMul(bt_config.commission_per_contract,
                                       RInt(t.quantity)), RInt(2))
           IN  /\ t.pnl = RSub(signed, commission)
               /\ RSub(equity, EquityBefore) = t.pnl
               /\ equity_points[Len(equity_points)] = equity

\* a second trade, a PUT of two contracts whose price moved
C10_Witness ==
    /\ bt_branch = "trade"
    /\ Len(equity_points) = 2
    /\ Len(trades) = 2
    /\ LastTrade.direction = "PUT"
    /\ LastTrade.quantity = 2
    /\ LastTrade.exit_price # LastTrade.entry_price
    /\ EquityBefore # bt_config.starting_equity

----------------------------------------------------------------------------
(* BacktestRunner._max_drawdown                                            *)

DrawdownDone == md_pc = "done"

StrictlyIncreasing(points) ==
    \A i \in 1..(Len(points) - 1) : RLt(points[i], points[i + 1])

\* the curve halves from its peak and then fully recovers
HalvesThenRecovers(points) ==
    /\ Len(points) = 3
    /\ RLt(RZero, points[1])
    /\ points[2] = RDiv(points[1], RInt(2))
    /\ points[3] = points[1]

\* the peak before point j: the largest value among points 1..j
PeakUpTo(points, j) ==
    CHOOSE m \in {points[i] : i \in 1..j} : \A i \in 1..j : RLe(points[i], m)

\* the fractional decline of point j from the peak before it
DeclineAt(points, j) ==
    RDiv(RSub(PeakUpTo(points, j), points[j]), PeakUpTo(points, j))

\* the declines are all defined: no peak of the curve is zero
PeaksNonZero(points) ==
    \A j \in 1..Len(points) : PeakUpTo(points, j) # RZero

\* C11: max_drawdown equals the maximum peak-to-trough fractional decline of
\* the equity curve; it is 0 for every strictly increasing curve and for the
\* empty one, and 0.5 for a curve that halves from its peak and then fully
\* recovers.
C11_MaxDrawdownAsStated ==
    DrawdownDone
        => /\ (StrictlyIncreasing(md_equity) => md_result = DNum(RZero))
           /\ (HalvesThenRecovers(md_equity) => md_result = DNum(R(1, 2)))
           /\ (md_equity # <<>> /\ PeaksNonZero(md_equity))
                => /\ md_result.kind = "num"
                   /\ \A j \in 1..Len(md_equity) :
                          RLe(DeclineAt(md_equity, j), md_result.v)
                   /\ \E j \in 1..Len(md_equity) :
                          DeclineAt(md_equity, j) = md_result.v

\* the same without the one-point curve at zero, whose only entry is 0 / 0
C11_MaxDrawdownPositivePeak ==
    (DrawdownDone /\ md_equity # <<RZero>>) => C11_MaxDrawdownAsStated

\* the curve 100, 50, 100 measured at 0.5
C11_Witness ==
    /\ DrawdownDone
    /\ md_equity = <<RInt(100), RInt(50), RInt(100)>>
    /\ md_result = DNum(R(1, 2))

----------------------------------------------------------------------------
(* BacktestRunner._simulate_exit_price                                     *)

NoExplicitTarget == ~(LastSignal.target_price.has /\ LastSignal.target_price.v # RZero)

\* the underlying's first close is positive and its last close is below it
UnderlyingFell ==
    LET bars == LastContext.underlying_bars
    IN  /\ bars # <<>>
        /\ bars[1] > 0
        /\ bars[Len(bars)] < bars[1]

\* C12: a recorded PUT trade without an explicit target price, on bars whose
\* last close is below a positive first close, exits strictly above its
\* entry price.
C12_PutExitRisesWhenUnderlyingFalls ==
    (/\ bt_branch = "trade"
     /\ LastSignal.direction = "PUT"
     /\ NoExplicitTarget
     /\ UnderlyingFell)
        => RLt(LastTrade.entry_price, LastTrade.exit_price)

\* a PUT entered at the PUT mid 0.6 on closes 100, 94: exit 0.7728
C12_Witness ==
    /\ bt_branch = "trade"
    /\ LastSignal.direction = "PUT"
    /\ NoExplicitTarget
    /\ UnderlyingFell
    /\ LastTrade.entry_price = R(6, 10)
    /\ LastTrade.exit_price = R(7728, 10000)

\* the closes of the aggregate series of the signal's direction
DirectionAggregates == LastContext.option_aggregates[LastSignal.direction]

\* C13: when the context carries option_aggregates for the signal's
\* direction with at least two closes, the exit price of the trade is the
\* most recent close of that series.
C13_ExitFromAggregates ==
    (bt_branch = "trade" /\ Len(DirectionAggregates) >= 2)
        => LastTrade.exit_price = DirectionAggregates[Len(DirectionAggregates)]

----------------------------------------------------------------------------
(* RiskManager.stop_loss_price and take_profit_price                       *)

LevelsDone == lv_stop.has /\ lv_limit.has

\* a risk fraction strictly between 0 and 1, the default reward multiplier
FractionInUnitInterval ==
    /\ RLt(RZero, lv_risk_fraction)
    /\ RLt(lv_risk_fraction, ROne)
    /\ lv_reward_multiplier = DefaultRewardMultiplier

\* C14 as stated: for every positive entry price and every risk fraction in
\* (0, 1), stop_loss_price < entry < take_profit_price with the default
\* reward multiplier.
C14_StopBelowEntryBelowLimit ==
    (LevelsDone /\ FractionInUnitInterval /\ RLt(RZero, lv_entry_price))
        => (RLt(lv_stop.v, lv_entry_price) /\ RLt(lv_entry_price, lv_limit.v))

\* C14 as amended: for every risk fraction in (0, 1) and the default reward
\* multiplier, an entry price above one cent has stop_loss_price < entry <
\* take_profit_price; a positive entry price of at most one cent has
\* stop_loss_price = 0.01 >= entry, and still entry < take_profit_price.
C14_StopBelowEntryAboveOneCent ==
    (LevelsDone /\ FractionInUnitInterval /\ RLt(RZero, lv_entry_price))
        => /\ RLt(lv_entry_price, lv_limit.v)
           /\ IF RLt(R(1, 100), lv_entry_price)
              THEN RLt(lv_stop.v, lv_entry_price)
              ELSE lv_stop.v = R(1, 100)

\* entry 5.0 at risk fraction 0.2: stop 4.0, limit 7.0
C14_Witness ==
    /\ LevelsDone
    /\ lv_entry_price = RInt(5)
    /\ lv_risk_fraction = R(1, 5)
    /\ lv_reward_multiplier = DefaultRewardMultiplier
    /\ lv_stop.v = RInt(4)
    /\ lv_limit.v = RInt(7)

----------------------------------------------------------------------------
(* AutoTrader.run_once                                                     *)

\* a step of the for loop that ran _build_intent on the next context
BuildStep == at_pc = "build" /\ at_pc' # "done"

\* the gates of _build_intent, for a signal and context under at_config
PassesGates(sig, ctx) ==
    LET entry == at_infer_entry_price(sig, ctx)
    IN  /\ sig.direction \in {"CALL", "PUT"}
        /\ RLe(at_config.min_confidence, sig.confidence)
        /\ entry.has
        /\ RLt(RZero, entry.v)
        /\ size_position([account_equity |-> at_config.account_equity,
                          trade_risk_fraction |-> at_config.trade_risk_fraction,
                          contract_price |-> entry.v,
                          confidence |-> sig.confidence,
                          max_positions |-> at_config.max_positions],
                         max_daily_loss_pct, min_confidence).value >= 1
        /\ Len(ctx.option_aggregates[sig.direction]) >= at_config.min_option_agg_bars
        /\ RLe(at_config.min_option_agg_volume,
               aggregate_health(ctx, sig.direction, at_config).volume)
        /\ RLe(at_config.min_option_agg_vwap,
               RAbs(aggregate_vwap_trend(ctx, sig.direction)))

\* what the claim asks of an intent
WellFormedIntent(intent) ==
    /\ intent.direction \in {"CALL", "PUT"}
    /\ RLe(at_config.min_confidence, intent.confidence)
    /\ RLt(RZero, intent.entry_price)
    /\ 1 <= intent.quantity
    /\ intent.quantity <= at_config.max_positions

\* C15: every intent of run_once comes from a signal that passed all gates
\* (direction CALL or PUT, confidence >= config.min_confidence, entry price
\* > 0, 1 <= quantity <= config.max_positions), and a context failing a gate
\* yields no intent, no order and no audit record.
C15_IntentsPassAllGates ==
    [][BuildStep
        => IF PassesGates(at_item'.signal, at_item'.context)
           THEN /\ Len(intents') = Len(intents) + 1
                /\ SubSeq(intents', 1, Len(intents)) = intents
                /\ WellFormedIntent(intents'[Len(intents')])
                /\ intents'[Len(intents')].direction = at_item'.signal.direction
                /\ intents'[Len(intents')].confidence = at_item'.signal.confidence
           ELSE /\ intents' = intents
                /\ alpaca_calls' = alpaca_calls
                /\ audit_log' = audit_log
                /\ at_pc' = "build"
                /\ at_processed' = at_processed + 1]_vars

\* a live cycle of two contexts that returned one intent of two contracts,
\* the other context rejected at the price gate
C15_Witness ==
    /\ at_pc = "done"
    /\ at_total = 2
    /\ Len(intents) = 1
    /\ intents[1].quantity = 2
    /\ at_gate = "price"
    /\ Len(alpaca_calls) = 1

HasSymbol(intent) == intent.option_symbol.has /\ intent.option_symbol.v # ""

\* the intents _execute_intent has been called on
ExecutedIntents ==
    IF at_pc = "execute" THEN SubSeq(intents, 1, Len(intents) - 1) ELSE intents

\* the submit each intent with a symbol asks for, in intent order
ExpectedCalls ==
    LET with_symbol == SelectSeq(ExecutedIntents, HasSymbol)
    IN  [i \in 1..Len(with_symbol) |->
            [symbol |-> with_symbol[i].option_symbol.v,
             quantity |-> with_symbol[i].quantity]]

\* the lines this cycle appended to the log
CycleLines ==
    IF audit_log # <<>> /\ audit_log[1] = EarlierLine THEN Tail(audit_log)
    ELSE audit_log

\* C16: in dry-run mode submit is never called; in live mode submit is
\* called exactly once for each intent that has an option symbol, with that
\* intent's symbol and quantity, never for an intent without one, which is
\* recorded as MISSING_SYMBOL.
C16_SubmitOnlyLiveWithSymbol ==
    /\ at_config.dry_run => alpaca_calls = <<>>
    /\ ~at_config.dry_run
        => /\ alpaca_calls = ExpectedCalls
           /\ \A i \in 1..Len(CycleLines) :
                  ~HasSymbol(intents[i]) <=> CycleLines[i].status = "MISSING_SYMBOL"

\* a live cycle with one intent submitted and one without a symbol
C16_Witness ==
    /\ at_pc = "done"
    /\ ~at_config.dry_run
    /\ Len(intents) = 2
    /\ HasSymbol(intents[1])
    /\ ~HasSymbol(intents[2])
    /\ alpaca_calls = <<[symbol |-> "AAPL-C", quantity |-> 1]>>
    /\ audit_log[Len(audit_log)].status = "MISSING_SYMBOL"

\* line and intent agree on the intent's fields
LineOfIntent(line, intent) ==
    /\ line.ticker = intent.ticker
    /\ line.option_symbol = intent.option_symbol
    /\ line.direction = intent.direction
    /\ line.quantity = intent.quantity
    /\ line.entry_price = intent.entry_price
    /\ line.confidence = intent.confidence

\* C17: the log only grows, by one line at a time, appended for the latest
\* intent after its execution result has been obtained and carrying that
\* result's status and order id; when the cycle completes the lines it
\* appended are one per returned intent, in intent order.
C17_OneAuditLinePerIntent ==
    [][/\ Len(audit_log') >= Len(audit_log)
       /\ SubSeq(audit_log', 1, Len(audit_log)) = audit_log
       /\ audit_log' # audit_log
           => /\ Len(audit_log') = Len(audit_log) + 1
              /\ at_pc = "record"
              /\ at_result.status \in {"DRY_RUN", "MISSING_SYMBOL", "SUBMITTED"}
              /\ audit_log'[Len(audit_log')].status = at_result.status
              /\ audit_log'[Len(audit_log')].order_id = at_result.order_id
              /\ LineOfIntent(audit_log'[Len(audit_log')], intents[Len(intents)])
       /\ at_pc' = "done"
           => /\ Len(CycleLines') = Len(intents')
              /\ \A i \in 1..Len(intents') : LineOfIntent(CycleLines'[i], intents'[i])]_vars

\* a completed live cycle on a log with an earlier line: two lines appended,
\* the second for a submitted order
C17_Witness ==
    /\ at_pc = "done"
    /\ Len(audit_log) = 3
    /\ audit_log[1] = EarlierLine
    /\ Len(intents) = 2
    /\ audit_log[2].ticker = 1
    /\ audit_log[3].ticker = 2
    /\ audit_log[3].status = "SUBMITTED"
    /\ audit_log[3].order_id = Some("order-id")

\* C19: when submit raises for an intent, the failure is reported for that
\* intent: once the cycle has ended submit has been called once for it, the
\* log holds a line for it, and every context of the cycle was processed.
C19_SubmitFailureReported ==
    (at_pc \in {"done", "raised"} /\ at_error = "submit")
        => /\ Len(CycleLines) = Len(intents)
           /\ LineOfIntent(CycleLines[Len(CycleLines)], intents[Len(intents)])
           /\ at_processed = at_total

----------------------------------------------------------------------------
(* AutoTrader._build_intent, liquidity gate (SpecBuildIntent)              *)

BuildIntentDone == lq_result # NoBuildResult

\* the aggregate series of the signal direction
DirectionSeries == lq_item.context.option_aggregates[lq_item.signal.direction]

\* a configured minimum the series falls below: bar count, volume summed
\* over the series, magnitude of the trend from first to last vwap
BelowMinimum ==
    \/ Len(DirectionSeries) < lq_config.min_option_agg_bars
    \/ RLt(VolumeSum(DirectionSeries), lq_config.min_option_agg_volume)
    \/ RLt(RAbs(aggregate_vwap_trend(lq_item.context, lq_item.signal.direction)),
           lq_config.min_option_agg_vwap)

\* C18: the liquidity gate rejects a sized signal exactly when the bar count
\* of the direction's series is below min_option_agg_bars, or the summed
\* volume of the series is below min_option_agg_volume, or the magnitude of
\* its VWAP trend is below min_option_agg_vwap; a series meeting all three
\* minimums produces an intent.
C18_LiquidityGate ==
    (BuildIntentDone /\ lq_result.gate \in {"liquidity", "intent"})
        => (lq_result.gate = "liquidity" <=> BelowMinimum)

----------------------------------------------------------------------------
(* MarketDataCollector.collect_market_snapshot (SpecCollector)             *)

CollectionEnded == mc_pc \in {"done", "raised"}

SnapshotTickers == {snapshot[i].ticker : i \in 1..Len(snapshot)}

\* a collaborator failed while ticker t was collected
FailedAt(t) == t <= Len(mc_failures) /\ mc_failures[t] # {}

\* C20: a collaborator failure while collecting one ticker's bars, option
\* chain or news does not abort the collection, and every other ticker
\* appears in the returned snapshot.
C20_PartialSnapshotTolerance ==
    CollectionEnded
        => /\ mc_pc = "done"
           /\ \A t \in 1..mc_total : ~FailedAt(t) => t \in SnapshotTickers

\* the same for failures while collecting bars or news: there the collection
\* goes on and every ticker, the failing one included, is in the snapshot
C20_BarsAndNewsTolerated ==
    (CollectionEnded /\ \A t \in 1..Len(mc_failures) : "chain" \notin mc_failures[t])
        => /\ mc_pc = "done"
           /\ SnapshotTickers = 1..mc_total

\* a returned snapshot of two tickers, bars having failed for the first and
\* news for the second
C20_ToleratedWitness ==
    /\ mc_pc = "done"
    /\ mc_failures = <<{"bars"}, {"news"}>>
    /\ SnapshotTickers = {1, 2}

----------------------------------------------------------------------------
(* AutoTrader.run_loop (SpecRunLoop)                                       *)

\* C21: run_loop follows every completed cycle by one sleep of
\* max(1, sleep_seconds) and then the next cycle, so it never returns; an
\* exception of a cycle ends the loop, nothing runs after it; when snapshot
\* collection raises, that cycle has executed no order and appended no audit
\* record.
C21_LoopSleepsAndPropagates ==
    [][/\ at_pc # "raised"
       /\ at_pc = "done"
           => /\ at_pc' = "start"
              /\ rl_cycles' = rl_cycles + 1
              /\ rl_sleeps' = Append(rl_sleeps,
                                     IF at_config.sleep_seconds > 1
                                     THEN at_config.sleep_seconds ELSE 1)
              /\ alpaca_calls' = alpaca_calls
              /\ audit_log' = audit_log
       /\ Len(rl_sleeps') = rl_cycles'
       /\ at_error' = "collect"
           => /\ at_pc' = "raised"
              /\ intents' = <<>>
              /\ Len(alpaca_calls') = rl_mark'.calls
              /\ Len(audit_log') = rl_mark'.log]_vars

\* a live loop with sleep_seconds 0: the first cycle submitted and recorded
\* an order and was followed by a sleep of 1, the second cycle's collection
\* raised
C21_Witness ==
    /\ at_pc = "raised"
    /\ at_error = "collect"
    /\ rl_cycles = 1
    /\ rl_sleeps = <<1>>
    /\ at_config.sleep_seconds = 0
    /\ Len(alpaca_calls) = 1
    /\ Len(audit_log) = 1

----------------------------------------------------------------------------
(* MomentumIVStrategy: direction, IV change and momentum (SpecStrategy)    *)

BySign(x) == IF RLt(RZero, x) THEN "CALL" ELSE "PUT"

MomentumDecides == RLt(EffectiveThreshold, RAbs(signal.momentum))

FlowDecides == RLe(config.option_flow_threshold, RAbs(ReportedFlowBias))

\* C22: first match wins: a momentum above the effective threshold in
\* magnitude gives the direction by its sign whatever the flow bias; the flow
\* bias decides only when the momentum does not; the direction is NONE
\* exactly when neither does.
C22_DirectionPrecedence ==
    SignalReturned
        => /\ MomentumDecides => signal.direction = BySign(signal.momentum)
           /\ (~MomentumDecides /\ FlowDecides)
                 => signal.direction = BySign(ReportedFlowBias)
           /\ signal.direction = "NONE" <=> (~MomentumDecides /\ ~FlowDecides)

\* a falling momentum against a call-heavy flow above the flow threshold
C22_Witness ==
    /\ SignalReturned
    /\ MomentumDecides
    /\ RLt(signal.momentum, RZero)
    /\ FlowDecides
    /\ RLt(RZero, ReportedFlowBias)
    /\ signal.direction = "PUT"

\* the momentum lies in (0.5 * threshold, threshold] in magnitude
BetweenHalfAndFull ==
    /\ RLt(RMul(config.momentum_threshold, R(1, 2)), RAbs(signal.momentum))
    /\ RLe(RAbs(signal.momentum), config.momentum_threshold)

\* C23: with a NaN iv_change every momentum above half the momentum
\* threshold in magnitude gives CALL or PUT by its sign; with a known
\* iv_change a momentum in (0.5 * threshold, threshold] does not decide the
\* direction, which is then the flow's or NONE.
C23_HalfThresholdWhenIvUnknown ==
    SignalReturned
        => /\ (/\ signal.iv_change.nan
               /\ RLt(RMul(config.momentum_threshold, R(1, 2)), RAbs(signal.momentum)))
                 => signal.direction = BySign(signal.momentum)
           /\ (~signal.iv_change.nan /\ BetweenHalfAndFull)
                 => signal.direction =
                      (IF FlowDecides THEN BySign(ReportedFlowBias) ELSE "NONE")

\* no IV data, a momentum of 0.001 against the threshold 0.0015, no flow
C23_Witness ==
    /\ SignalReturned
    /\ signal.iv_change.nan
    /\ BetweenHalfAndFull
    /\ ~FlowDecides
    /\ signal.direction = "CALL"

\* the IV-change values of both sources
IvChangeValues ==
    Collect(context.option_chain, "iv_change") \o Collect(context.option_metrics, "vega")

\* C24: iv_change is the mean of the iv_change values of the chain legs and
\* the vega values of the option_metrics entries, and NaN exactly when
\* there is no such value, an empty option_chain included.
C24_IvChangeMeanOfBothSources ==
    SignalReturned
        => signal.iv_change =
             (IF IvChangeValues = <<>> THEN NaN
              ELSE Num(RDiv(RSum(IvChangeValues), RInt(Len(IvChangeValues)))))

\* the same with a non-empty option_chain
C24_IvChangeWithChain ==
    (SignalReturned /\ context.option_chain # <<>>)
        => signal.iv_change =
             (IF IvChangeValues = <<>> THEN NaN
              ELSE Num(RDiv(RSum(IvChangeValues), RInt(Len(IvChangeValues)))))

BarMomentum == compute_momentum(context.underlying_bars, config)
FeatureMomentum == momentum_from_features(context.features)
QuoteMomentum == momentum_from_quotes(context.option_quote)

\* the momentum after the feature fallback
AfterFeatures ==
    IF /\ RLt(RAbs(BarMomentum), config.momentum_threshold)
       /\ RLt(RAbs(BarMomentum), RAbs(FeatureMomentum))
    THEN FeatureMomentum ELSE BarMomentum

\* C25: the momentum of the signal is exactly one of the bar momentum, the
\* features momentum and the quote-spread ratio; a bar momentum at or above
\* the threshold stands; a fallback replaces a value only if it is strictly
\* larger in magnitude; the quote fallback is used only on a value still
\* below the threshold after the feature fallback.
C25_FallbacksOnlyOverride ==
    SignalReturned
        => /\ signal.momentum \in {BarMomentum, FeatureMomentum, QuoteMomentum}
           /\ RLe(config.momentum_threshold, RAbs(BarMomentum))
                 => signal.momentum = BarMomentum
           /\ RLe(config.momentum_threshold, RAbs(AfterFeatures))
                 => signal.momentum = AfterFeatures
           /\ signal.momentum # BarMomentum
                 => RLt(RAbs(BarMomentum), RAbs(signal.momentum))
           /\ signal.momentum # AfterFeatures
                 => /\ signal.momentum = QuoteMomentum
                    /\ RLt(RAbs(AfterFeatures), RAbs(QuoteMomentum))
           /\ RLe(RAbs(BarMomentum), RAbs(signal.momentum))

\* a weak bar momentum and a weak features momentum, both below the
\* threshold, replaced by the quote-spread ratio
C25_Witness ==
    /\ SignalReturned
    /\ BarMomentum # RZero
    /\ FeatureMomentum # RZero
    /\ FeatureMomentum # BarMomentum
    /\ RLt(RAbs(AfterFeatures), config.momentum_threshold)
    /\ signal.momentum = QuoteMomentum
    /\ QuoteMomentum # AfterFeatures
    /\ signal.direction = "CALL"

----------------------------------------------------------------------------
(* BacktestRunner._simulate_exit_price (SpecExitPrice)                     *)

ExitTargetSet == xp_signal.target_price.has /\ xp_signal.target_price.v # RZero

\* s: +1 for CALL, -1 otherwise
ExitSign == IF xp_signal.direction = "CALL" THEN ROne ELSE RNeg(ROne)

\* L = clamp(12 * |delta_hint|, 1.5, 8.0)
ExitLeverage ==
    LET raw == RMul(RInt(12), RAbs(signal_delta_hint(xp_signal)))
    IN  IF RLt(raw, R(15, 10)) THEN R(15, 10)
        ELSE IF RLt(RInt(8), raw) THEN RInt(8)
        ELSE raw

ExitReturn == underlying_return(xp_context)

ExitProjected ==
    RMul(xp_entry, RAdd(ROne, RMul(RMul(ExitSign, ExitReturn.v), ExitLeverage)))

\* C26: an explicit target price is returned unchanged; else, with the
\* underlying return r computable, exit = max(0.1 * entry, entry * (1 + s *
\* r * L)) with L in [1.5, 8.0], never below 10% of the entry price; else
\* exit = entry * (1 + s * 0.2 * confidence).
C26_ExitPriceProjection ==
    xp_exit.has
        => /\ ExitTargetSet => xp_exit.v = xp_signal.target_price.v
           /\ (~ExitTargetSet /\ ExitReturn.has)
                 => /\ xp_exit.v = (IF RLt(ExitProjected, RMul(R(1, 10), xp_entry))
                                    THEN RMul(R(1, 10), xp_entry) ELSE ExitProjected)
                    /\ RLe(RMul(R(1, 10), xp_entry), xp_exit.v)
                    /\ RLe(R(15, 10), ExitLeverage)
                    /\ RLe(ExitLeverage, RInt(8))
           /\ (~ExitTargetSet /\ ~ExitReturn.has)
                 => xp_exit.v = RMul(xp_entry,
                                     RAdd(ROne, RMul(RMul(ExitSign, R(2, 10)),
                                                     xp_signal.confidence)))

\* a CALL on closes 100, 80 with a delta of -0.9: the leverage is capped at
\* 8, the projection is negative and the exit is the floor
C26_Witness ==
    /\ xp_exit.has
    /\ xp_signal.direction = "CALL"
    /\ ~ExitTargetSet
    /\ xp_context.underlying_bars = <<100, 80>>
    /\ xp_signal.metadata.delta = Some(R(-9, 10))
    /\ ExitLeverage = RInt(8)
    /\ RLt(ExitProjected, RZero)
    /\ xp_exit.v = RMul(R(1, 10), xp_entry)

----------------------------------------------------------------------------
(* BacktestRunner.run: equity bookkeeping (SpecBacktest)                   *)

TradePnls == [i \in 1..Len(trades) |-> trades[i].pnl]

\* what holds after every prefix of contexts
EquityLedger ==
    /\ equity = RAdd(bt_config.starting_equity, RSum(TradePnls))
    /\ Len(trades) <= Len(equity_points)
    /\ equity_points # <<>> => equity_points[Len(equity_points)] = equity
    /\ bt_pc = "done" => /\ stats.final_equity = equity
                         /\ stats.num_trades = Len(trades)
                         /\ stats.num_trades <= Len(equity_points)

\* what one processed context does to the curve and the ledger
OnePointPerContext ==
    equity_points' # equity_points
        => /\ equity_points' = Append(equity_points, equity')
           /\ \/ trades' = trades /\ equity' = equity
              \/ /\ Len(trades') = Len(trades) + 1
                 /\ SubSeq(trades', 1, Len(trades)) = trades
                 /\ equity' = RAdd(equity, trades'[Len(trades')].pnl)

\* C27: after every prefix of contexts the running equity is starting_equity
\* plus the pnl of the trades recorded so far, each context adds exactly one
\* point (the equity after it) to the curve, and at the end final_equity is
\* the running equity and num_trades the ledger length, at most the number
\* of contexts.
C27_EquityLedger == []EquityLedger /\ [][OnePointPerContext]_vars

\* a finished run of two contexts, one skipped and one traded
C27_Witness ==
    /\ bt_pc = "done"
    /\ Len(equity_points) = 2
    /\ Len(trades) = 1
    /\ stats.num_trades = 1
    /\ equity # bt_config.starting_equity

----------------------------------------------------------------------------
(* BacktestRunner.run: the loss of a simulated trade (SpecBacktest)        *)

\* what a long position of the trade's quantity cost: the premium and the
\* round-trip commission
PaidFor(t) ==
    RAdd(RMul(t.entry_price, RInt(t.quantity)),
         RMul(RMul(RInt(2), bt_config.commission_per_contract), RInt(t.quantity)))

\* C28: every TradeRecord produced by run, CALL or PUT, has
\* pnl >= -(entry_price * quantity + 2 * commission_per_contract * quantity).
C28_LossLimitedToPremium ==
    \A i \in 1..Len(trades) : RLe(RNeg(PaidFor(trades[i])), trades[i].pnl)

----------------------------------------------------------------------------
(* BacktestRunner.run: sizing from the running equity (SpecSmallAccount)   *)

ContextProcessed == Len(equity_points') = Len(equity_points) + 1

\* a trade's quantity is what the risk manager sizes at the equity the
\* context started from
SizedFromRunningEquity ==
    (ContextProcessed /\ Len(trades') = Len(trades) + 1)
        => trades'[Len(trades')].quantity
               = SizedQuantity(bt_item'.signal, trades'[Len(trades')].entry_price, equity)

\* with the running equity at or below zero after some context, a later
\* context records no trade and leaves the equity alone
NoTradeAfterRuin ==
    (ContextProcessed /\ equity_points # <<>> /\ RLe(equity, RZero)
        /\ RLe(RZero, bt_config.risk_fraction))
        => trades' = trades /\ equity' = equity

\* C29: each trade is sized from the running equity at that step, not from
\* starting_equity; once the running equity is <= 0 after some context (risk
\* fraction non-negative), no later context of the run records a trade and
\* the equity stays unchanged.
C29_SizedFromRunningEquity == [][SizedFromRunningEquity /\ NoTradeAfterRuin]_vars

\* a first trade that takes the equity below zero, then a context whose
\* signal and entry price would trade at the starting equity but sizes to 0
C29_Witness ==
    /\ Len(equity_points) = 2
    /\ Len(trades) = 1
    /\ RLt(equity_points[1], RZero)
    /\ equity = equity_points[1]
    /\ bt_branch = "skip_size"
    /\ infer_entry_price(LastSignal, LastContext).has
    /\ SizedQuantity(LastSignal, infer_entry_price(LastSignal, LastContext).v,
                     bt_config.starting_equity) > 0

----------------------------------------------------------------------------
(* BacktestRunner.run: the reported max_drawdown (SpecBacktest)            *)

FellBelowStart ==
    \E i \in 1..Len(equity_points) : RLt(equity_points[i], bt_config.starting_equity)

\* the decline of point i from the starting equity, as a fraction of it
DeclineFromStart(i) ==
    RDiv(RSub(bt_config.starting_equity, equity_points[i]), bt_config.starting_equity)

\* C30: whenever the running equity falls below starting_equity at some step
\* of the run, stats.max_drawdown is strictly greater than 0 and at least
\* (starting_equity - lowest equity) / starting_equity.
C30_DrawdownFromStartingEquity ==
    (bt_pc = "done" /\ FellBelowStart)
        => /\ stats.max_drawdown.kind = "num"
           /\ RLt(RZero, stats.max_drawdown.v)
           /\ \A i \in 1..Len(equity_points) :
                  RLe(DeclineFromStart(i), stats.max_drawdown.v)

====
